---- MODULE Spec2Model ----
(***************************************************************************)
(* A model of the import pipeline of BinaryX-Graph: ImportSession in       *)
(* src/api/session.rs, the entity constructors of src/models/nodes.rs, the *)
(* address helpers of src/utils/uid.rs and the Cypher statements of        *)
(* src/neo4j/importer.rs, run against an abstract graph store.             *)
(*                                                                         *)
(* A Rust string is a sequence of one-character strings: "0x1A" is         *)
(* <<"0","x","1","A">>.  Option<T> is a record [some, v].                  *)
(***************************************************************************)
EXTENDS Integers, Sequences, FiniteSets, TLC

\* ------------------------------------------------------------------------
\* Option<T>
\* ------------------------------------------------------------------------
None == [some |-> FALSE, v |-> <<>>]

Some(x) == [some |-> TRUE, v |-> x]

\* Option<u64>: the absent value carries 0 so that both arms are numbers.
NoneNum == [some |-> FALSE, v |-> 0]

\* ------------------------------------------------------------------------
\* Characters
\* ------------------------------------------------------------------------
HexDigits == <<"0","1","2","3","4","5","6","7","8","9","a","b","c","d","e","f">>

UpperHex == <<"A","B","C","D","E","F">>

Range(s) == {s[i] : i \in DOMAIN s}

IndexOf(s, c) == CHOOSE i \in DOMAIN s : s[i] = c

UpperLetters ==
    <<"A","B","C","D","E","F","G","H","I","J","K","L","M",
      "N","O","P","Q","R","S","T","U","V","W","X","Y","Z">>

LowerLetters ==
    <<"a","b","c","d","e","f","g","h","i","j","k","l","m",
      "n","o","p","q","r","s","t","u","v","w","x","y","z">>

\* char::to_lowercase (ASCII letters; every other character is kept)
LowerChar(c) ==
    IF c \in Range(UpperLetters) THEN LowerLetters[IndexOf(UpperLetters, c)] ELSE c

\* char::to_uppercase
UpperChar(c) ==
    IF c \in Range(LowerLetters) THEN UpperLetters[IndexOf(LowerLetters, c)] ELSE c

\* str::to_lowercase
ToLower(s) == [i \in DOMAIN s |-> LowerChar(s[i])]

\* str::to_uppercase
ToUpper(s) == [i \in DOMAIN s |-> UpperChar(s[i])]

\* str::contains
Contains(s, sub) ==
    \E i \in 0..(Len(s) - Len(sub)) : SubSeq(s, i + 1, i + Len(sub)) = sub

IsWhitespace(c) == c \in {" ", "\t"}

\* char::is_ascii_digit
IsAsciiDigit(c) == c \in {"0","1","2","3","4","5","6","7","8","9"}

\* char::is_ascii_hexdigit
IsAsciiHexDigit(c) == c \in Range(HexDigits) \cup Range(UpperHex)

\* char::to_digit(16): the value of a hexadecimal digit.
DigitValue(c) == IndexOf(HexDigits, LowerChar(c)) - 1

\* Is c a digit of the given radix (10 or 16)?
IsDigitOf(c, radix) == IF radix = 10 THEN IsAsciiDigit(c) ELSE IsAsciiHexDigit(c)

\* ------------------------------------------------------------------------
\* src/utils/uid.rs
\* ------------------------------------------------------------------------
RECURSIVE TrimStart(_)
TrimStart(s) ==
    IF s # <<>> /\ IsWhitespace(Head(s)) THEN TrimStart(Tail(s)) ELSE s

RECURSIVE TrimEnd(_)
TrimEnd(s) ==
    IF s # <<>> /\ IsWhitespace(s[Len(s)]) THEN TrimEnd(SubSeq(s, 1, Len(s) - 1)) ELSE s

\* str::trim
Trim(s) == TrimEnd(TrimStart(s))

RECURSIVE DigitsValue(_, _)
DigitsValue(s, radix) ==
    IF s = <<>> THEN 0
    ELSE DigitsValue(SubSeq(s, 1, Len(s) - 1), radix) * radix + DigitValue(s[Len(s)])

\* u64::from_str_radix: one optional leading "+", then at least one digit of
\* the radix and nothing else.  (The strings of the model are short enough
\* that the value always fits 64 bits.)
FromStrRadix(s, radix) ==
    LET digits == IF s # <<>> /\ Head(s) = "+" THEN Tail(s) ELSE s
    IN  IF digits = <<>> \/ \E i \in DOMAIN digits : ~IsDigitOf(digits[i], radix)
        THEN NoneNum
        ELSE Some(DigitsValue(digits, radix))

HasPrefix0x(s) == Len(s) >= 2 /\ s[1] = "0" /\ s[2] \in {"x", "X"}

\* parse_address without the decimal rule: a string of digits is read as
\* hexadecimal
parse_address_hex_only(address_str) ==
    LET trimmed == Trim(address_str)
    IN  IF trimmed = <<>> THEN NoneNum
        ELSE IF HasPrefix0x(trimmed) THEN FromStrRadix(SubSeq(trimmed, 3, Len(trimmed)), 16)
        ELSE FromStrRadix(trimmed, 16)

parse_address(address_str) ==
    LET trimmed == Trim(address_str)
    IN  IF trimmed = <<>> THEN NoneNum
        ELSE IF HasPrefix0x(trimmed) THEN FromStrRadix(SubSeq(trimmed, 3, Len(trimmed)), 16)
        ELSE IF \E i \in DOMAIN trimmed :
                   IsAsciiHexDigit(trimmed[i]) /\ ~IsAsciiDigit(trimmed[i])
             THEN FromStrRadix(trimmed, 16)
        ELSE IF FromStrRadix(trimmed, 10).some THEN FromStrRadix(trimmed, 10)
        ELSE FromStrRadix(trimmed, 16)

RECURSIVE HexOf(_)
HexOf(n) == IF n < 16 THEN <<HexDigits[n + 1]>> ELSE HexOf(n \div 16) \o <<HexDigits[(n % 16) + 1]>>

\* format_address with the prefix left out: format!("{:x}", address)
format_address_bare(address) == HexOf(address)

\* format!("0x{:x}", address)
format_address(address) == <<"0", "x">> \o HexOf(address)

normalize_address(address_str) ==
    LET p == parse_address(address_str)
    IN  IF p.some THEN Some(format_address(p.v)) ELSE None

\* A stand-in for the hexadecimal SHA-256 digest of a string: an injective
\* encoding, which is what collision resistance gives the callers.
Sha256Hex(value) == <<"#">> \o value

generate_string_uid(value) == <<"s","t","r",":">> \o Sha256Hex(value)

\* create_internal with the identifier built from {address:x} instead of
\* hex_addr
create_internal_bare_uid(binary_hash, address, name, is_export) ==
    LET hex_addr == format_address(address)
    IN  [uid     |-> binary_hash \o <<":">> \o HexOf(address),
         name    |-> name,
         type    |-> IF is_export THEN "Export" ELSE "Internal",
         address |-> Some(hex_addr),
         size    |-> NoneNum]

\* ------------------------------------------------------------------------
\* src/models/nodes.rs, src/models/relationships.rs
\* ------------------------------------------------------------------------
create_internal(binary_hash, address, name, is_export) ==
    LET hex_addr == format_address(address)
    IN  [uid     |-> binary_hash \o <<":">> \o hex_addr,
         name    |-> name,
         type    |-> IF is_export THEN "Export" ELSE "Internal",
         address |-> Some(hex_addr),
         size    |-> NoneNum]

\* Function::create_import_with_address, as session.rs:141 calls it: the
\* binary-scoped key of an import that carries an address.
create_import_with_address(binary_hash, library, name, address) ==
    [uid     |-> <<"i","m","p",":">> \o binary_hash \o <<":">> \o ToLower(library)
                    \o <<":">> \o name,
     name    |-> name,
     type    |-> "Import",
     address |-> Some(address),
     size    |-> NoneNum]

\* TrimEndNul left out: the value as the extractor wrote it
KeepValue(value) == value

RECURSIVE TrimEndNul(_)
\* value.trim_end_matches('\0')
TrimEndNul(value) ==
    IF value # <<>> /\ value[Len(value)] = "NUL"
    THEN TrimEndNul(SubSeq(value, 1, Len(value) - 1))
    ELSE value

\* StringNode::new(binary_hash, value, address), as session.rs:341 calls it.
StringNode_new(binary_hash, value, address) ==
    LET normalized_value == TrimEndNul(value)
    IN  [uid     |-> <<"s","t","r",":">> \o binary_hash \o <<":">> \o Sha256Hex(normalized_value),
         value   |-> normalized_value,
         address |-> address]

Library_create(name) == [name |-> ToLower(name)]

\* CallType::from_str
CallType_from_str(s) ==
    LET l == ToLower(s)
    IN  IF l = <<"d","i","r","e","c","t">> THEN "Direct"
        ELSE IF l = <<"i","n","d","i","r","e","c","t">> THEN "Indirect"
        ELSE IF l = <<"v","i","r","t","u","a","l">> THEN "Virtual"
        ELSE IF l = <<"t","a","i","l">> THEN "Tail"
        ELSE "Direct"

Calls_new(offset, call_type) == [rel_type |-> "CALLS", offset |-> offset, call_type |-> call_type]

\* ------------------------------------------------------------------------
\* The parsers of src/api/session.rs.  A parser returns [ok, v, err]:
\* Ok(v) or Err(err).
\* ------------------------------------------------------------------------
Ok(v) == [ok |-> TRUE, v |-> v, err |-> ""]

Err(e) == [ok |-> FALSE, v |-> <<>>, err |-> e]

\* opt.unwrap_or(d)
UnwrapOr(opt, d) == IF opt.some THEN opt.v ELSE d

\* a.or_else(|| b)
OrElse(a, b) == IF a.some THEN a ELSE b

\* A JSON section: the key is absent, holds something that is no array, or
\* holds an array of records.
IsArray(section) == section.kind = "array"

\* parse_binary_info with the filename defaulted instead of required
parse_binary_info_default_name(binary_info) ==
    IF ~binary_info.hashes.some THEN Err("Missing hashes")
    ELSE
    LET hashes   == binary_info.hashes.v
        sha256   == OrElse(hashes.sha256, hashes.SHA256)
        filename == OrElse(binary_info.name, binary_info.filename)
    IN  IF ~sha256.some THEN Err("Missing sha256 hash")
        ELSE Ok([hash      |-> sha256.v,
                 filename  |-> UnwrapOr(filename, <<"u","n","k","n","o","w","n">>),
                 file_path |-> UnwrapOr(binary_info.file_path, <<>>),
                 file_size |-> UnwrapOr(binary_info.file_size, 0),
                 format    |-> "PE",
                 arch      |-> <<"u","n","k","n","o","w","n">>])

parse_binary_info(binary_info) ==
    IF ~binary_info.hashes.some THEN Err("Missing hashes")
    ELSE
    LET hashes   == binary_info.hashes.v
        sha256   == OrElse(hashes.sha256, hashes.SHA256)
        filename == OrElse(binary_info.name, binary_info.filename)
    IN  IF ~sha256.some THEN Err("Missing sha256 hash")
        ELSE IF ~filename.some THEN Err("Missing filename")
        ELSE IF ~binary_info.file_type.some THEN Err("Missing file_type")
        ELSE IF ~binary_info.file_type.v.type.some THEN Err("Missing file type")
        ELSE
        LET format_upper == ToUpper(binary_info.file_type.v.type.v)
            format == IF Contains(format_upper, <<"P","E">>) THEN "PE"
                      ELSE IF Contains(format_upper, <<"E","L","F">>) THEN "Elf"
                      ELSE IF Contains(format_upper, <<"M","A","C","H">>) THEN "MachO"
                      ELSE "PE"
        IN  Ok([hash      |-> sha256.v,
                filename  |-> filename.v,
                file_path |-> UnwrapOr(binary_info.file_path, <<>>),
                file_size |-> UnwrapOr(binary_info.file_size, 0),
                format    |-> format,
                arch      |-> UnwrapOr(binary_info.file_type.v.architecture,
                                       <<"u","n","k","n","o","w","n">>)])

RECURSIVE ParseFunctionRecords(_, _)
ParseFunctionRecords(items, binary_hash) ==
    IF items = <<>> THEN <<>>
    ELSE
    LET func_data   == Head(items)
        name        == UnwrapOr(func_data.name, <<"u","n","k","n","o","w","n">>)
        address_str == UnwrapOr(func_data.address, <<"0","x","0">>)
        address     == UnwrapOr(parse_address(address_str), 0)
        function    == [create_internal(binary_hash, address, name, FALSE)
                           EXCEPT !.size = func_data.size]
    IN  <<function>> \o ParseFunctionRecords(Tail(items), binary_hash)

parse_functions(functions_data, binary_hash) ==
    IF ~IsArray(functions_data) THEN Err("functions must be an array")
    ELSE Ok(ParseFunctionRecords(functions_data.items, binary_hash))

RECURSIVE ParseStringRecordsGlobalKey(_, _)
\* ParseStringRecords building each node as StringNode::new(value) of
\* nodes.rs 93-103 does: keyed by generate_string_uid, whatever the binary
ParseStringRecordsGlobalKey(items, binary_hash) ==
    IF items = <<>> THEN <<>>
    ELSE
    LET string_data == Head(items)
        rest        == ParseStringRecordsGlobalKey(Tail(items), binary_hash)
        node        == [uid     |-> generate_string_uid(TrimEndNul(string_data.value.v)),
                        value   |-> TrimEndNul(string_data.value.v),
                        address |-> IF string_data.kind = "object"
                                    THEN string_data.address ELSE None]
    IN  IF (string_data.kind = "object" /\ string_data.value.some) \/ string_data.kind = "bare"
        THEN <<node>> \o rest
        ELSE rest

RECURSIVE ParseStringRecords(_, _)
ParseStringRecords(items, binary_hash) ==
    IF items = <<>> THEN <<>>
    ELSE
    LET string_data == Head(items)
        rest        == ParseStringRecords(Tail(items), binary_hash)
    IN  IF string_data.kind = "object" /\ string_data.value.some
        THEN <<StringNode_new(binary_hash, string_data.value.v, string_data.address)>> \o rest
        ELSE IF string_data.kind = "bare"
        THEN <<StringNode_new(binary_hash, string_data.value.v, None)>> \o rest
        ELSE rest

parse_strings(strings_data, binary_hash) ==
    IF ~IsArray(strings_data) THEN Err("strings must be an array")
    ELSE Ok(ParseStringRecords(strings_data.items, binary_hash))

\* ParseImportRecords that passes over a record without name or library
RECURSIVE ParseImportRecordsSkipping(_)
ParseImportRecordsSkipping(items) ==
    IF items = <<>> THEN Ok([libraries |-> {}, imports |-> <<>>])
    ELSE
    LET import_data == Head(items)
        rest        == ParseImportRecordsSkipping(Tail(items))
    IN  IF ~import_data.name.some \/ ~import_data.library.some THEN rest
        ELSE
        LET lib_lower == ToLower(import_data.library.v)
            import    == [name    |-> import_data.name.v,
                          address |-> UnwrapOr(import_data.address, <<"0","x","0">>),
                          library |-> import_data.library.v]
        IN  Ok([libraries |-> {[name |-> lib_lower]} \cup rest.v.libraries,
                imports   |-> <<import>> \o rest.v.imports])

\* ParseImportRecords with the libraries keyed by the name as written
RECURSIVE ParseImportRecordsByRawName(_)
ParseImportRecordsByRawName(items) ==
    IF items = <<>> THEN Ok([libraries |-> {}, imports |-> <<>>])
    ELSE
    LET import_data == Head(items)
        rest        == ParseImportRecordsByRawName(Tail(items))
    IN  IF ~import_data.name.some THEN Err("Import missing name")
        ELSE IF ~import_data.library.some THEN Err("Import missing library")
        ELSE IF ~rest.ok THEN rest
        ELSE
        LET import == [name    |-> import_data.name.v,
                       address |-> UnwrapOr(import_data.address, <<"0","x","0">>),
                       library |-> import_data.library.v]
        IN  Ok([libraries |-> {[name |-> import_data.library.v]} \cup rest.v.libraries,
                imports   |-> <<import>> \o rest.v.imports])

\* parse_imports: the libraries are the values of a HashMap keyed by the
\* lowercase name, hence a set; the order in which they are later visited
\* is the map's.
RECURSIVE ParseImportRecords(_)
ParseImportRecords(items) ==
    IF items = <<>> THEN Ok([libraries |-> {}, imports |-> <<>>])
    ELSE
    LET import_data == Head(items)
        rest        == ParseImportRecords(Tail(items))
    IN  IF ~import_data.name.some THEN Err("Import missing name")
        ELSE IF ~import_data.library.some THEN Err("Import missing library")
        ELSE IF ~rest.ok THEN rest
        ELSE
        LET lib_lower == ToLower(import_data.library.v)
            import    == [name    |-> import_data.name.v,
                          address |-> UnwrapOr(import_data.address, <<"0","x","0">>),
                          library |-> import_data.library.v]
        IN  Ok([libraries |-> {Library_create(lib_lower)} \cup rest.v.libraries,
                imports   |-> <<import>> \o rest.v.imports])

parse_imports(imports_data) ==
    IF ~IsArray(imports_data) THEN Err("imports must be an array")
    ELSE ParseImportRecords(imports_data.items)

RECURSIVE ParseExportRecords(_)
ParseExportRecords(items) ==
    IF items = <<>> THEN Ok(<<>>)
    ELSE
    LET export_data == Head(items)
        rest        == ParseExportRecords(Tail(items))
    IN  IF ~export_data.name.some THEN Err("Export missing name")
        ELSE IF ~export_data.address.some THEN Err("Export missing address")
        ELSE IF ~rest.ok THEN rest
        ELSE Ok(<<[name |-> export_data.name.v, address |-> export_data.address.v]>> \o rest.v)

parse_exports(exports_data) ==
    IF ~IsArray(exports_data) THEN Err("exports must be an array")
    ELSE ParseExportRecords(exports_data.items)

\* ------------------------------------------------------------------------
\* The graph store and the statements of src/neo4j/importer.rs.
\* Nodes are maps from the MERGE key to the properties SET; edges are sets
\* of endpoint pairs (CALLS: a map from the pair to the edge's properties).
\* ------------------------------------------------------------------------
EmptyMap == [x \in {} |-> x]

\* HashMap::insert, and MERGE ... SET on a node
Put(m, k, val) == [x \in DOMAIN m \cup {k} |-> IF x = k THEN val ELSE m[x]]

EmptyStore ==
    [binaries   |-> EmptyMap,
     functions  |-> EmptyMap,
     strings    |-> EmptyMap,
     libraries  |-> {},
     contains   |-> {},
     imports    |-> {},
     belongs_to |-> {},
     calls      |-> EmptyMap]

import_binary(store, binary) ==
    [store EXCEPT !.binaries =
        Put(@, binary.hash, [filename  |-> binary.filename,
                             file_path |-> binary.file_path,
                             file_size |-> binary.file_size,
                             format    |-> binary.format,
                             arch      |-> binary.arch])]

import_function(store, function) ==
    [store EXCEPT !.functions =
        Put(@, function.uid, [name    |-> function.name,
                              address |-> UnwrapOr(function.address, <<>>),
                              type    |-> function.type,
                              size    |-> UnwrapOr(function.size, -1)])]

import_string_node(store, string_node) ==
    [store EXCEPT !.strings =
        Put(@, string_node.uid, [value   |-> string_node.value,
                                 address |-> UnwrapOr(string_node.address, <<>>)])]

import_library(store, library) ==
    [store EXCEPT !.libraries = @ \cup {library.name}]

\* MATCH (b:Binary {hash}), (f:Function {uid}) MERGE (b)-[:CONTAINS]->(f):
\* without both nodes the MATCH yields no row and nothing is merged.
create_contains_relationship(store, binary_hash, function_uid) ==
    IF binary_hash \in DOMAIN store.binaries /\ function_uid \in DOMAIN store.functions
    THEN [store EXCEPT !.contains = @ \cup {<<binary_hash, function_uid>>}]
    ELSE store

create_belongs_to_relationship(store, function_uid, library_name) ==
    IF function_uid \in DOMAIN store.functions /\ library_name \in store.libraries
    THEN [store EXCEPT !.belongs_to = @ \cup {<<function_uid, library_name>>}]
    ELSE store

create_imports_relationship(store, binary_hash, library_name) ==
    IF binary_hash \in DOMAIN store.binaries /\ library_name \in store.libraries
    THEN [store EXCEPT !.imports = @ \cup {<<binary_hash, library_name>>}]
    ELSE store

create_calls_relationship(store, calls, from_uid, to_uid) ==
    IF from_uid \in DOMAIN store.functions /\ to_uid \in DOMAIN store.functions
    THEN [store EXCEPT !.calls =
            Put(@, <<from_uid, to_uid>>, [offset    |-> calls.offset,
                                          call_type |-> calls.call_type])]
    ELSE store

\* ------------------------------------------------------------------------
\* Requests: what import_data asks of the importer, in order.  A request is
\* [op, a, b, node, policy, msg]: the operation, its key arguments, the
\* entity sent, and what import_data does when the store reports failure:
\*   "collect"  push msg on the error list and go on       (if let Err(e))
\*   "raise"    return the error to import_data's caller   (?)
\*   "abort"    return the error from import_calls_with_mapping (?)
\* The pseudo-operation "push_error" is an error pushed between requests.
\* ------------------------------------------------------------------------
Request(op, a, b, node, policy, msg) ==
    [op |-> op, a |-> a, b |-> b, node |-> node, policy |-> policy, msg |-> msg]

\* Pseudo-requests, steps of import_data between two requests: an error
\* pushed on the list, a call record skipped, a record that lacks a
\* required field (the ? on ok_or_else).
PushError(msg, detail) == Request("push_error", <<>>, <<>>, <<>>, "collect", <<msg, detail>>)

SkipCall == Request("skip", <<>>, <<>>, <<>>, "collect", <<"", "">>)

MissingField(detail) == Request("missing_field", <<>>, <<>>, <<>>, "abort", <<"", detail>>)

EdgeOps ==
    {"create_contains_relationship", "create_imports_relationship",
     "create_belongs_to_relationship", "create_calls_relationship"}

\* The effect of one successful request on the store.
Apply(store, req) ==
    CASE req.op = "import_binary"      -> import_binary(store, req.node)
      [] req.op = "import_function"    -> import_function(store, req.node)
      [] req.op = "import_string_node" -> import_string_node(store, req.node)
      [] req.op = "import_library"     -> import_library(store, req.node)
      [] req.op = "create_contains_relationship" ->
             create_contains_relationship(store, req.a, req.b)
      [] req.op = "create_imports_relationship" ->
             create_imports_relationship(store, req.a, req.b)
      [] req.op = "create_belongs_to_relationship" ->
             create_belongs_to_relationship(store, req.a, req.b)
      [] req.op = "create_calls_relationship" ->
             create_calls_relationship(store, req.node, req.a, req.b)

LogEntry(req, ok) == [op |-> req.op, a |-> req.a, b |-> req.b, node |-> req.node, ok |-> ok]

StoreError == "store error"

\* The state a run of requests works on: the store, the requests sent so
\* far, import_data's error list, how the run ended ("ok", "raise",
\* "abort") with the error that ended it, and the two counters of
\* import_calls_with_mapping.
ExecState(store, log, errors) ==
    [store |-> store, log |-> log, errors |-> errors, status |-> "ok", err |-> "",
     call_count |-> 0, skipped_count |-> 0]

\* Runs reqs[i..] against st; the requests whose index is in failing are
\* answered with an error by the store and change nothing in it.
RECURSIVE Execute(_, _, _, _)
Execute(st, reqs, i, failing) ==
    IF i > Len(reqs) THEN st
    ELSE
    LET req == reqs[i]
    IN  IF req.op = "push_error"
        THEN Execute([st EXCEPT !.errors = Append(@, req.msg)], reqs, i + 1, failing)
        ELSE IF req.op = "skip"
        THEN Execute([st EXCEPT !.skipped_count = @ + 1], reqs, i + 1, failing)
        ELSE IF req.op = "missing_field"
        THEN [st EXCEPT !.status = "abort", !.err = req.msg[2]]
        ELSE IF i \notin failing
        THEN Execute([st EXCEPT !.store = Apply(@, req),
                                !.log   = Append(@, LogEntry(req, TRUE)),
                                !.call_count =
                                    IF req.op = "create_calls_relationship" THEN @ + 1 ELSE @],
                     reqs, i + 1, failing)
        ELSE IF req.policy = "collect"
        THEN Execute([st EXCEPT !.log    = Append(@, LogEntry(req, FALSE)),
                                !.errors = Append(@, req.msg)],
                     reqs, i + 1, failing)
        ELSE [st EXCEPT !.log = Append(@, LogEntry(req, FALSE)),
                        !.status = req.policy, !.err = StoreError]

\* ------------------------------------------------------------------------
\* The phases of ImportSession::import_data: the address-map updates and
\* the requests of each, as functions of the parsed section.
\* ------------------------------------------------------------------------
ChunkSize == 1000

Min(a, b) == IF a < b THEN a ELSE b

\* The two inserts of a function's address: normalized if there is one, raw.
InsertAddress(map, address, uid) ==
    LET normalized == normalize_address(address)
        m1 == IF normalized.some THEN Put(map, normalized.v, uid) ELSE map
    IN  Put(m1, address, uid)

RECURSIVE FunctionsAddressMap(_, _)
FunctionsAddressMap(map, functions) ==
    IF functions = <<>> THEN map
    ELSE
    LET function == Head(functions)
        m1 == IF function.address.some
              THEN InsertAddress(map, function.address.v, function.uid)
              ELSE map
    IN  FunctionsAddressMap(m1, Tail(functions))

ImportFunctionRaise(function) ==
    Request("import_function", function.uid, <<>>, function, "raise", <<"", StoreError>>)

\* ChunkRequests with the CONTAINS edges asked for before the chunk is upserted
ChunkRequestsEdgesFirst(chunk, binary_hash) ==
    LET Contains_(function) ==
            Request("create_contains_relationship", binary_hash, function.uid, <<>>,
                    "collect", <<"Failed to create CONTAINS relationship", StoreError>>)
    IN  [n \in DOMAIN chunk |-> Contains_(chunk[n])] \o [n \in DOMAIN chunk |-> ImportFunctionRaise(chunk[n])]

\* One chunk: import_functions_batch, then the CONTAINS edge of each member.
ChunkRequests(chunk, binary_hash) ==
    LET Contains_(function) ==
            Request("create_contains_relationship", binary_hash, function.uid, <<>>,
                    "collect", <<"Failed to create CONTAINS relationship", StoreError>>)
    IN  [n \in DOMAIN chunk |-> ImportFunctionRaise(chunk[n])] \o [n \in DOMAIN chunk |-> Contains_(chunk[n])]

RECURSIVE FunctionsRequests(_, _)
FunctionsRequests(functions, binary_hash) ==
    IF functions = <<>> THEN <<>>
    ELSE
    LET n == Min(ChunkSize, Len(functions))
    IN  ChunkRequests(SubSeq(functions, 1, n), binary_hash)
            \o FunctionsRequests(SubSeq(functions, n + 1, Len(functions)), binary_hash)

RECURSIVE UniqueStringsLastWins(_, _)
\* UniqueStrings with unique_strings.insert(uid, string_node)
UniqueStringsLastWins(unique_strings, string_nodes) ==
    IF string_nodes = <<>> THEN unique_strings
    ELSE UniqueStringsLastWins(Put(unique_strings, Head(string_nodes).uid, Head(string_nodes)),
                               Tail(string_nodes))

RECURSIVE UniqueStringsByOccurrence(_, _)
\* UniqueStrings keyed by identifier and address: one entry per occurrence
UniqueStringsByOccurrence(unique_strings, string_nodes) ==
    IF string_nodes = <<>> THEN unique_strings
    ELSE
    LET string_node == Head(string_nodes)
        key == string_node.uid \o <<"@">> \o UnwrapOr(string_node.address, <<>>)
        m1 == IF key \in DOMAIN unique_strings
              THEN unique_strings
              ELSE Put(unique_strings, key, string_node)
    IN  UniqueStringsByOccurrence(m1, Tail(string_nodes))

RECURSIVE UniqueStrings(_, _)
\* unique_strings.entry(uid).or_insert(string_node), over string_nodes in order
UniqueStrings(unique_strings, string_nodes) ==
    IF string_nodes = <<>> THEN unique_strings
    ELSE
    LET string_node == Head(string_nodes)
        m1 == IF string_node.uid \in DOMAIN unique_strings
              THEN unique_strings
              ELSE Put(unique_strings, string_node.uid, string_node)
    IN  UniqueStrings(m1, Tail(string_nodes))

\* The orders in which a HashMap may hand out the members of S.
Orderings(S) ==
    {o \in [1..Cardinality(S) -> S] : \A i, j \in DOMAIN o : i # j => o[i] # o[j]}

StringsRequests(nodes) ==
    LET Import_(string_node) ==
            Request("import_string_node", string_node.uid, <<>>, string_node,
                    "collect", <<"Failed to import string", StoreError>>)
    IN  [n \in DOMAIN nodes |-> Import_(nodes[n])]

RECURSIVE LibraryRequestsEdgeFirst(_, _)
\* LibraryRequests with the IMPORTS edge asked for before the Library upsert
LibraryRequestsEdgeFirst(libraries, binary_hash) ==
    IF libraries = <<>> THEN <<>>
    ELSE
    LET library == Head(libraries)
    IN  << Request("create_imports_relationship", binary_hash, library.name, <<>>,
                   "collect", <<"Failed to create IMPORTS relationship", StoreError>>),
           Request("import_library", library.name, <<>>, library,
                   "collect", <<"Failed to import library", StoreError>>) >>
            \o LibraryRequestsEdgeFirst(Tail(libraries), binary_hash)

RECURSIVE LibraryRequests(_, _)
LibraryRequests(libraries, binary_hash) ==
    IF libraries = <<>> THEN <<>>
    ELSE
    LET library == Head(libraries)
    IN  << Request("import_library", library.name, <<>>, library,
                   "collect", <<"Failed to import library", StoreError>>),
           Request("create_imports_relationship", binary_hash, library.name, <<>>,
                   "collect", <<"Failed to create IMPORTS relationship", StoreError>>) >>
            \o LibraryRequests(Tail(libraries), binary_hash)

\* ImportFunction through Function::create_import(library, name) of
\* nodes.rs 71-83: the key shared by all binaries, no address
ImportFunctionGlobal(import, binary_hash) ==
    [uid     |-> <<"i","m","p",":">> \o ToLower(import.library) \o <<":">> \o import.name,
     name    |-> import.name,
     type    |-> "Import",
     address |-> None,
     size    |-> NoneNum]

ImportFunction(import, binary_hash) ==
    create_import_with_address(binary_hash, ToLower(import.library), import.name,
                               import.address)

RECURSIVE ImportRequests(_, _)
ImportRequests(imports, binary_hash) ==
    IF imports = <<>> THEN <<>>
    ELSE
    LET import   == Head(imports)
        function == ImportFunction(import, binary_hash)
    IN  << Request("import_function", function.uid, <<>>, function,
                   "collect", <<"Failed to import function", StoreError>>),
           Request("create_belongs_to_relationship", function.uid,
                   ToLower(import.library), <<>>,
                   "collect", <<"Failed to create BELONGS_TO relationship", StoreError>>) >>
            \o ImportRequests(Tail(imports), binary_hash)

ImportsRequests(libraries, imports, binary_hash) ==
    LibraryRequests(libraries, binary_hash) \o ImportRequests(imports, binary_hash)

RECURSIVE ImportsAddressMap(_, _, _)
ImportsAddressMap(map, imports, binary_hash) ==
    IF imports = <<>> THEN map
    ELSE
    LET import == Head(imports)
    IN  ImportsAddressMap(
            InsertAddress(map, import.address, ImportFunction(import, binary_hash).uid),
            Tail(imports), binary_hash)

RECURSIVE ExportsRequests(_, _)
ExportsRequests(exports, binary_hash) ==
    IF exports = <<>> THEN <<>>
    ELSE
    LET export  == Head(exports)
        address == parse_address(export.address)
        rest    == ExportsRequests(Tail(exports), binary_hash)
    IN  IF ~address.some THEN <<PushError("Invalid export address", "")>> \o rest
        ELSE
        LET function == create_internal(binary_hash, address.v, export.name, TRUE)
        IN  <<Request("import_function", function.uid, <<>>, function,
                      "collect", <<"Failed to import export function", StoreError>>)>> \o rest

RECURSIVE ExportsAddressMapOverwriting(_, _, _)
\* ExportsAddressMap without the contains_key test
ExportsAddressMapOverwriting(map, exports, binary_hash) ==
    IF exports = <<>> THEN map
    ELSE
    LET export  == Head(exports)
        address == parse_address(export.address)
    IN  IF ~address.some THEN ExportsAddressMapOverwriting(map, Tail(exports), binary_hash)
        ELSE
        LET function == create_internal(binary_hash, address.v, export.name, TRUE)
        IN  ExportsAddressMapOverwriting(
                InsertAddress(map, function.address.v, function.uid),
                Tail(exports), binary_hash)

RECURSIVE ExportsAddressMap(_, _, _)
ExportsAddressMap(map, exports, binary_hash) ==
    IF exports = <<>> THEN map
    ELSE
    LET export  == Head(exports)
        address == parse_address(export.address)
    IN  IF ~address.some THEN ExportsAddressMap(map, Tail(exports), binary_hash)
        ELSE
        LET function == create_internal(binary_hash, address.v, export.name, TRUE)
            m1 == IF function.address.some /\ function.address.v \notin DOMAIN map
                  THEN InsertAddress(map, function.address.v, function.uid)
                  ELSE map
        IN  ExportsAddressMap(m1, Tail(exports), binary_hash)

\* address_to_uid.get(normalized).or_else(|| address_to_uid.get(raw))
Resolve(address_to_uid, addr) ==
    LET normalized == UnwrapOr(normalize_address(addr), addr)
    IN  IF normalized \in DOMAIN address_to_uid THEN Some(address_to_uid[normalized])
        ELSE IF addr \in DOMAIN address_to_uid THEN Some(address_to_uid[addr])
        ELSE None

\* The loop of import_calls_with_mapping: per record, the ? of a missing
\* endpoint, the CALLS request, or the skip.
RECURSIVE CallsRequests(_, _)
CallsRequests(items, address_to_uid) ==
    IF items = <<>> THEN <<>>
    ELSE
    LET call_data == Head(items)
        rest      == CallsRequests(Tail(items), address_to_uid)
    IN  IF ~call_data.from_address.some
        THEN <<MissingField("Call missing from_address")>> \o rest
        ELSE IF ~call_data.to_address.some
        THEN <<MissingField("Call missing to_address")>> \o rest
        ELSE
        LET offset    == UnwrapOr(call_data.offset, <<"0","x","0">>)
            call_type == CallType_from_str(UnwrapOr(call_data.type, <<"d","i","r","e","c","t">>))
            from_uid  == Resolve(address_to_uid, call_data.from_address.v)
            to_uid    == Resolve(address_to_uid, call_data.to_address.v)
        IN  IF from_uid.some /\ to_uid.some
            THEN <<Request("create_calls_relationship", from_uid.v, to_uid.v,
                           Calls_new(offset, call_type), "abort", <<"", StoreError>>)>> \o rest
            ELSE <<SkipCall>> \o rest

\* ------------------------------------------------------------------------
\* Input payloads (serde_json::Value).  A section is [kind, items] with kind
\* "absent" (no such key), "not_array" or "array".
\* ------------------------------------------------------------------------
Absent == [kind |-> "absent", items |-> <<>>]

NotArray == [kind |-> "not_array", items |-> <<>>]

Array(items) == [kind |-> "array", items |-> items]

\* Bounds of the input families
MaxRecords == 2

MaxStrings == 3

\* The store may answer at most MaxFaults requests with an error.
MaxFaults == 1

SeqsUpTo(S, n) == UNION {[1..k -> S] : k \in 0..n}

Sections(pool, n) == {Absent, NotArray} \cup {Array(items) : items \in SeqsUpTo(pool, n)}

H1 == <<"h","1">>

H2 == <<"h","2">>

A10 == <<"0","x","1","0">>

FileType(type, architecture) == Some([type |-> type, architecture |-> architecture])

BinaryInfo(hashes, name, filename, file_type) ==
    Some([hashes    |-> hashes,
          name      |-> name,
          filename  |-> filename,
          file_path |-> Some(<<"/","b">>),
          file_size |-> [some |-> TRUE, v |-> 64],
          file_type |-> file_type])

Hashes(sha256, SHA256) == Some([sha256 |-> sha256, SHA256 |-> SHA256])

HashesPool ==
    {None, Hashes(None, None), Hashes(Some(H1), None), Hashes(None, Some(H2)),
     Hashes(Some(H1), Some(H2))}

NamePool == {<<None, None>>, <<Some(<<"b">>), None>>, <<None, Some(<<"c">>)>>}

FileTypePool ==
    {None, FileType(None, None),
     FileType(Some(<<"E","L","F","6","4">>), None),
     FileType(Some(<<"M","a","c","h","-","O">>), Some(<<"a","r","m">>)),
     FileType(Some(<<"r","a","w">>), None)}

BinaryInfos ==
    {None} \cup {BinaryInfo(h, n[1], n[2], t) : h \in HashesPool, n \in NamePool, t \in FileTypePool}

GoodBinaryInfo ==
    BinaryInfo(Hashes(Some(H1), None), Some(<<"b">>), None,
               FileType(Some(<<"E","L","F","6","4">>), None))

FunctionRecord(name, address, size) == [name |-> name, address |-> address, size |-> size]

FnMain == FunctionRecord(Some(<<"m">>), Some(A10), [some |-> TRUE, v |-> 4])

\* a decimal address: 32 is 0x20
FnDecimal == FunctionRecord(Some(<<"f">>), Some(<<"3","2">>), NoneNum)

FunctionPool ==
    {FnMain, FnDecimal,
     FunctionRecord(None, Some(<<"z","z">>), NoneNum),
     FunctionRecord(Some(<<"g">>), None, NoneNum)}

StringRecord(kind, value, address) == [kind |-> kind, value |-> value, address |-> address]

StringPool ==
    {StringRecord("object", Some(<<"a">>), Some(<<"0","x","3","0">>)),
     StringRecord("object", Some(<<"a","NUL">>), Some(<<"0","x","4","0">>)),
     StringRecord("bare", Some(<<"b">>), None),
     StringRecord("object", None, Some(<<"0","x","3","0">>)),
     StringRecord("other", None, None)}

ImportRecord(name, library, address) == [name |-> name, library |-> library, address |-> address]

ImpUpper == ImportRecord(Some(<<"p">>), Some(<<"L","i","b">>), Some(<<"0","x","5","0">>))

ImportPool ==
    {ImpUpper,
     ImportRecord(Some(<<"p">>), Some(<<"l","i","b">>), None),
     ImportRecord(Some(<<"q">>), Some(<<"k","3","2">>), Some(<<"1","6">>)),
     ImportRecord(None, Some(<<"l","i","b">>), Some(<<"0","x","5","0">>)),
     ImportRecord(Some(<<"p">>), None, None)}

ExportRecord(name, address) == [name |-> name, address |-> address]

ExpNew == ExportRecord(Some(<<"e">>), Some(<<"0","x","6","0">>))

\* an export at the address of ImpUpper, written in decimal: 80 is 0x50
ExpAtImport == ExportRecord(Some(<<"i">>), Some(<<"8","0">>))

ExportPool ==
    {ExpNew, ExpAtImport,
     ExportRecord(Some(<<"e">>), Some(<<"1","6">>)),
     ExportRecord(Some(<<"e">>), Some(<<"z","z">>)),
     ExportRecord(None, Some(A10)),
     ExportRecord(Some(<<"e">>), None)}

CallRecord(from_address, to_address, offset, type) ==
    [from_address |-> from_address, to_address |-> to_address, offset |-> offset, type |-> type]

CallSelf == CallRecord(Some(A10), Some(A10), None, None)

CallPool ==
    {CallSelf,
     CallRecord(Some(<<"1","6">>), Some(<<"0","x","6","0">>), Some(<<"0","x","1","4">>),
                Some(<<"T","a","i","l">>)),
     CallRecord(Some(A10), Some(<<"0","X","5","0">>), Some(<<"0","x","1","8">>), Some(<<"?">>)),
     CallRecord(Some(<<"z","z">>), Some(A10), None, None),
     CallRecord(None, Some(A10), None, None),
     CallRecord(Some(A10), None, None, None)}

\* five string records with two distinct normalized values
FiveStrings ==
    Array(<<StringRecord("object", Some(<<"a">>), Some(<<"0","x","3","0">>)),
            StringRecord("object", Some(<<"a","NUL">>), Some(<<"0","x","4","0">>)),
            StringRecord("bare", Some(<<"b">>), None),
            StringRecord("object", Some(<<"b","NUL","NUL">>), Some(<<"0","x","4","4">>)),
            StringRecord("object", Some(<<"a">>), None)>>)

Payload(binary_info, functions, strings, imports, exports, calls) ==
    [binary_info |-> binary_info, functions |-> functions, strings |-> strings,
     imports |-> imports, exports |-> exports, calls |-> calls]

BaseFunctions == Array(<<FnMain, FnDecimal>>)

BaseCalls == Array(<<CallSelf, CallRecord(Some(A10), Some(<<"0","x","5","0">>), None, None)>>)

\* The payloads of the model: each family varies one section over all its
\* shapes and keeps the others at values that interact with it.
Payloads ==
    {Payload(b, Array(<<FnMain>>), Absent, Absent, Absent, Array(<<CallSelf>>)) :
        b \in BinaryInfos}
    \cup {Payload(GoodBinaryInfo, f, Absent, Absent, Array(<<ExpNew>>), BaseCalls) :
        f \in Sections(FunctionPool, MaxRecords)}
    \cup {Payload(GoodBinaryInfo, Array(<<FnMain>>), t, Absent, Absent, Absent) :
        t \in Sections(StringPool, MaxStrings) \cup {FiveStrings}}
    \cup {Payload(GoodBinaryInfo, BaseFunctions, Absent, i, Array(<<ExpNew>>), BaseCalls) :
        i \in Sections(ImportPool, MaxRecords)}
    \cup {Payload(GoodBinaryInfo, BaseFunctions, Absent, Array(<<ImpUpper>>), e, BaseCalls) :
        e \in Sections(ExportPool, MaxRecords)}
    \cup {Payload(GoodBinaryInfo, BaseFunctions, Absent, Array(<<ImpUpper>>),
                  Array(<<ExpNew>>), c) :
        c \in Sections(CallPool, MaxRecords)}

\* ------------------------------------------------------------------------
\* The state of one ImportSession working on one payload.
\* ------------------------------------------------------------------------
VARIABLES
    data,            \* the payload handed to import_data
    store,           \* the graph store
    pc,              \* the phase import_data is about to run, or "done"
    binary,          \* the parsed Binary (binary.hash is binary_hash)
    address_to_uid,  \* the address map of the batch
    stats,           \* ImportStatistics
    errors,          \* the error list
    log,             \* the requests sent to the store by this batch, in order
    result,          \* what import_data returned
    calls_out,       \* import_calls_with_mapping: its counters when it returned
    run,             \* "import", or "reimport" of the same payload
    prev,            \* the store and result the first import left
    faults,          \* the requests the store has answered with an error
    query,           \* the query asked of the store after the import
    answer           \* what the query returned

vars ==
    <<data, store, pc, binary, address_to_uid, stats, errors, log, result,
      calls_out, run, prev, faults, query, answer>>

ZeroStats ==
    [binaries |-> 0, functions |-> 0, strings |-> 0, libraries |-> 0,
     calls_relationships |-> 0, total_nodes |-> 0]

NoBinary ==
    [hash |-> <<>>, filename |-> <<>>, file_path |-> <<>>, file_size |-> 0,
     format |-> "PE", arch |-> <<>>]

NoResult == [kind |-> "none", success |-> FALSE, statistics |-> ZeroStats, errors |-> <<>>]

\* Ok(ImportResult { success, statistics, errors })
ImportResult(success, statistics, errs) ==
    [kind |-> "Ok", success |-> success, statistics |-> statistics, errors |-> errs]

\* Err(e): a store error handed to import_data's caller by a ?
Raised == [kind |-> "Err", success |-> FALSE, statistics |-> ZeroStats, errors |-> <<>>]

NoCalls == [ran |-> FALSE, ok |-> FALSE, call_count |-> 0, skipped_count |-> 0]

\* A store left by an earlier import of another payload for the same binary.
OldFunctions ==
    <<create_internal(H1, 16, <<"o">>, FALSE), create_internal(H1, 112, <<"o">>, FALSE)>>

OldRequests ==
    <<Request("import_binary", H1, <<>>,
              [NoBinary EXCEPT !.hash = H1, !.filename = <<"o">>],
              "raise", <<"", StoreError>>)>>
      \o FunctionsRequests(OldFunctions, H1)
      \o CallsRequests(<<CallRecord(Some(A10), Some(<<"0","x","7","0">>), None, None),
                         CallRecord(Some(A10), Some(A10), Some(<<"0","x","9">>), None)>>,
                       FunctionsAddressMap(EmptyMap, OldFunctions))

OldStore == Execute(ExecState(EmptyStore, <<>>, <<>>), OldRequests, 1, {}).store

\* No query has been asked
NoQuery == [fn |-> "none", args |-> <<>>]

Init ==
    /\ data \in Payloads
    /\ store \in {EmptyStore, OldStore}
    /\ pc = "binary"
    /\ binary = NoBinary
    /\ address_to_uid = EmptyMap
    /\ stats = ZeroStats
    /\ errors = <<>>
    /\ log = <<>>
    /\ result = NoResult
    /\ calls_out = NoCalls
    /\ run = "import"
    /\ prev = [store |-> EmptyStore, result |-> NoResult]
    /\ faults = 0
    /\ query = NoQuery
    /\ answer = <<>>

\* The sets of request indices the store may still fail.
FailSets(reqs) ==
    {F \in SUBSET {i \in DOMAIN reqs : reqs[i].op \notin {"push_error", "skip", "missing_field"}} :
        Cardinality(F) <= MaxFaults - faults}

Failures(entries) == Cardinality({i \in DOMAIN entries : ~entries[i].ok})

\* What every phase does with the outcome st of its requests: the store, the
\* log and the fault count move on; a raised error ends import_data.
Settle(st, next) ==
    /\ store' = st.store
    /\ log' = st.log
    /\ faults' = faults + Failures(st.log) - Failures(log)
    /\ IF st.status = "raise"
       THEN pc' = "done" /\ result' = Raised
       ELSE pc' = next /\ result' = result

\* session.rs 32-58
BinaryPhase ==
    /\ pc = "binary"
    /\ UNCHANGED <<query, answer>>
    /\ UNCHANGED <<data, address_to_uid, calls_out, run, prev>>
    /\ LET parsed == IF data.binary_info.some
                     THEN parse_binary_info(data.binary_info.v)
                     ELSE Err("")
       IN  IF ~parsed.ok
           THEN /\ errors' = Append(errors,
                        IF data.binary_info.some
                        THEN <<"Failed to parse binary info", parsed.err>>
                        ELSE <<"Missing binary_info in data", "">>)
                /\ result' = ImportResult(FALSE, stats, errors')
                /\ pc' = "done"
                /\ UNCHANGED <<store, binary, stats, log, faults>>
           ELSE LET reqs == <<Request("import_binary", parsed.v.hash, <<>>, parsed.v,
                                      "raise", <<"", StoreError>>)>>
                IN  \E failing \in FailSets(reqs) :
                        LET st == Execute(ExecState(store, log, errors), reqs, 1, failing)
                        IN  /\ Settle(st, "functions")
                            /\ binary' = parsed.v
                            /\ stats' = IF st.status = "ok"
                                        THEN [stats EXCEPT !.binaries = 1] ELSE stats
                            /\ errors' = st.errors

\* session.rs 60-93
FunctionsPhase ==
    /\ pc = "functions"
    /\ UNCHANGED <<query, answer>>
    /\ UNCHANGED <<data, binary, calls_out, run, prev>>
    /\ IF data.functions.kind = "absent"
       THEN pc' = "strings"
            /\ UNCHANGED <<store, address_to_uid, stats, errors, log, result, faults>>
       ELSE
       LET parsed == parse_functions(data.functions, binary.hash)
       IN  IF ~parsed.ok
           THEN /\ errors' = Append(errors, <<"Failed to parse functions", parsed.err>>)
                /\ pc' = "strings"
                /\ UNCHANGED <<store, address_to_uid, stats, log, result, faults>>
           ELSE LET reqs == FunctionsRequests(parsed.v, binary.hash)
                IN  \E failing \in FailSets(reqs) :
                        LET st == Execute(ExecState(store, log, errors), reqs, 1, failing)
                        IN  /\ Settle(st, "strings")
                            /\ stats' = [stats EXCEPT !.functions = @ + Len(parsed.v)]
                            /\ address_to_uid' = FunctionsAddressMap(address_to_uid, parsed.v)
                            /\ errors' = st.errors

\* session.rs 95-118
StringsPhase ==
    /\ pc = "strings"
    /\ UNCHANGED <<query, answer>>
    /\ UNCHANGED <<data, binary, address_to_uid, calls_out, run, prev>>
    /\ IF data.strings.kind = "absent"
       THEN pc' = "imports" /\ UNCHANGED <<store, stats, errors, log, result, faults>>
       ELSE
       LET parsed == parse_strings(data.strings, binary.hash)
       IN  IF ~parsed.ok
           THEN /\ errors' = Append(errors, <<"Failed to parse strings", parsed.err>>)
                /\ pc' = "imports"
                /\ UNCHANGED <<store, stats, log, result, faults>>
           ELSE LET unique_strings == UniqueStrings(EmptyMap, parsed.v)
                IN  \E order \in Orderings(DOMAIN unique_strings) :
                    LET reqs == StringsRequests([i \in DOMAIN order |-> unique_strings[order[i]]])
                    IN  \E failing \in FailSets(reqs) :
                        LET st == Execute(ExecState(store, log, errors), reqs, 1, failing)
                        IN  /\ Settle(st, "imports")
                            /\ stats' = [stats EXCEPT !.strings =
                                            @ + Cardinality(DOMAIN unique_strings)]
                            /\ errors' = st.errors

\* session.rs 120-169
ImportsPhase ==
    /\ pc = "imports"
    /\ UNCHANGED <<query, answer>>
    /\ UNCHANGED <<data, binary, calls_out, run, prev>>
    /\ IF data.imports.kind = "absent"
       THEN pc' = "exports"
            /\ UNCHANGED <<store, address_to_uid, stats, errors, log, result, faults>>
       ELSE
       LET parsed == parse_imports(data.imports)
       IN  IF ~parsed.ok
           THEN /\ errors' = Append(errors, <<"Failed to parse imports", parsed.err>>)
                /\ pc' = "exports"
                /\ UNCHANGED <<store, address_to_uid, stats, log, result, faults>>
           ELSE \E libraries \in Orderings(parsed.v.libraries) :
                    LET reqs == ImportsRequests(libraries, parsed.v.imports, binary.hash)
                    IN  \E failing \in FailSets(reqs) :
                        LET st == Execute(ExecState(store, log, errors), reqs, 1, failing)
                        IN  /\ Settle(st, "exports")
                            /\ stats' = [stats EXCEPT !.libraries =
                                            @ + Cardinality(parsed.v.libraries)]
                            /\ address_to_uid' =
                                   ImportsAddressMap(address_to_uid, parsed.v.imports, binary.hash)
                            /\ errors' = st.errors

\* session.rs 171-203
ExportsPhase ==
    /\ pc = "exports"
    /\ UNCHANGED <<query, answer>>
    /\ UNCHANGED <<data, binary, stats, calls_out, run, prev>>
    /\ IF data.exports.kind = "absent"
       THEN pc' = "calls"
            /\ UNCHANGED <<store, address_to_uid, errors, log, result, faults>>
       ELSE
       LET parsed == parse_exports(data.exports)
       IN  IF ~parsed.ok
           THEN /\ errors' = Append(errors, <<"Failed to parse exports", parsed.err>>)
                /\ pc' = "calls"
                /\ UNCHANGED <<store, address_to_uid, log, result, faults>>
           ELSE LET reqs == ExportsRequests(parsed.v, binary.hash)
                IN  \E failing \in FailSets(reqs) :
                        LET st == Execute(ExecState(store, log, errors), reqs, 1, failing)
                        IN  /\ Settle(st, "calls")
                            /\ address_to_uid' =
                                   ExportsAddressMap(address_to_uid, parsed.v, binary.hash)
                            /\ errors' = st.errors

\* session.rs 205-217 and import_calls_with_mapping, 415-480
CallsPhase ==
    /\ pc = "calls"
    /\ UNCHANGED <<query, answer>>
    /\ UNCHANGED <<data, binary, address_to_uid, run, prev>>
    /\ IF data.calls.kind = "absent"
       THEN pc' = "return"
            /\ UNCHANGED <<store, stats, errors, log, result, calls_out, faults>>
       ELSE IF ~IsArray(data.calls)
       THEN /\ errors' = Append(errors, <<"Failed to import calls", "calls must be an array">>)
            /\ calls_out' = [NoCalls EXCEPT !.ran = TRUE]
            /\ pc' = "return"
            /\ UNCHANGED <<store, stats, log, result, faults>>
       ELSE LET reqs == CallsRequests(data.calls.items, address_to_uid)
            IN  \E failing \in FailSets(reqs) :
                    LET st == Execute(ExecState(store, log, errors), reqs, 1, failing)
                    IN  /\ Settle(st, "return")
                        /\ calls_out' = [ran |-> TRUE, ok |-> st.status = "ok",
                                         call_count |-> st.call_count,
                                         skipped_count |-> st.skipped_count]
                        /\ stats' = IF st.status = "ok"
                                    THEN [stats EXCEPT !.calls_relationships = @ + st.call_count]
                                    ELSE stats
                        /\ errors' = IF st.status = "ok" THEN st.errors
                                     ELSE Append(st.errors, <<"Failed to import calls", st.err>>)

\* Return with the CALLS edges counted among the nodes
ReturnCountingCalls ==
    /\ pc = "return"
    /\ UNCHANGED <<query, answer>>
    /\ stats' = [stats EXCEPT !.total_nodes =
                    stats.binaries + stats.functions + stats.strings + stats.libraries
                        + stats.calls_relationships]
    /\ result' = ImportResult(errors = <<>>, stats', errors)
    /\ pc' = "done"
    /\ UNCHANGED <<data, store, binary, address_to_uid, errors, log, calls_out, run, prev,
                   faults>>

\* session.rs 219-225
Return ==
    /\ pc = "return"
    /\ UNCHANGED <<query, answer>>
    /\ stats' = [stats EXCEPT !.total_nodes =
                    stats.binaries + stats.functions + stats.strings + stats.libraries]
    /\ result' = ImportResult(errors = <<>>, stats', errors)
    /\ pc' = "done"
    /\ UNCHANGED <<data, store, binary, address_to_uid, errors, log, calls_out, run, prev,
                   faults>>

\* The same payload is handed to import_data a second time (client.rs 38-41:
\* every import runs in a fresh ImportSession on the same store).
Reimport ==
    /\ pc = "done"
    /\ UNCHANGED <<query, answer>>
    /\ run = "import"
    /\ run' = "reimport"
    /\ prev' = [store |-> store, result |-> result]
    /\ pc' = "binary"
    /\ binary' = NoBinary
    /\ address_to_uid' = EmptyMap
    /\ stats' = ZeroStats
    /\ errors' = <<>>
    /\ log' = <<>>
    /\ result' = NoResult
    /\ calls_out' = NoCalls
    /\ UNCHANGED <<data, store, faults>>

Next ==
    \/ BinaryPhase
    \/ FunctionsPhase
    \/ StringsPhase
    \/ ImportsPhase
    \/ ExportsPhase
    \/ CallsPhase
    \/ Return
    \/ Reimport

Spec == Init /\ [][Next]_vars

\* ------------------------------------------------------------------------
\* Helpers of the properties
\* ------------------------------------------------------------------------
\* The positions of the requests of the given operations in a log.
Sent(entries, ops) == {i \in DOMAIN entries : entries[i].op \in ops}

HasBothEndpoints(call_data) == call_data.from_address.some /\ call_data.to_address.some

\* A call record both of whose endpoint strings are keys of the address
\* map, in normalized or, failing that, raw form.
BothResolve(call_data) ==
    /\ HasBothEndpoints(call_data)
    /\ Resolve(address_to_uid, call_data.from_address.v).some
    /\ Resolve(address_to_uid, call_data.to_address.v).some

\* import_calls_with_mapping has returned for a calls section that is an array.
CallsPhaseDone == calls_out.ran /\ IsArray(data.calls)

\* C1: in the calls phase, of the records that have both endpoints exactly
\* the ones whose two endpoints resolve get a CALLS request; an unresolved
\* record adds no error, and created + skipped = number of call records,
\* the skipped count being the number of unresolved records.
C1_CallsIssuedIffResolved ==
    (CallsPhaseDone /\ \A i \in DOMAIN data.calls.items : HasBothEndpoints(data.calls.items[i]))
    => /\ Cardinality(Sent(log, {"create_calls_relationship"}))
              = Cardinality({pos \in DOMAIN data.calls.items : BothResolve(data.calls.items[pos])})
       /\ calls_out.skipped_count
              = Len(data.calls.items) - Cardinality({pos \in DOMAIN data.calls.items : BothResolve(data.calls.items[pos])})
       /\ calls_out.call_count + calls_out.skipped_count = Len(data.calls.items)

\* binary_info is absent or lacks hashes, a sha256/SHA256 hash or a
\* name/filename.
LacksBinaryIdentity ==
    \/ ~data.binary_info.some
    \/ ~data.binary_info.v.hashes.some
    \/ ~OrElse(data.binary_info.v.hashes.v.sha256, data.binary_info.v.hashes.v.SHA256).some
    \/ ~OrElse(data.binary_info.v.name, data.binary_info.v.filename).some

\* C2: without a binary identity import_data stops in the binary phase: no
\* request reaches the store, the store is as it was, and the result is
\* success = false, all statistics 0 and the one error of the binary phase.
C2_NoBinaryNoWrite ==
    LacksBinaryIdentity
    => /\ pc \in {"binary", "done"}
       /\ log = <<>>
       /\ store \in {EmptyStore, OldStore}
       /\ pc = "done"
          => /\ result.kind = "Ok"
             /\ ~result.success
             /\ result.statistics = ZeroStats
             /\ Len(result.errors) = 1
             /\ result.errors[1][1] \in {"Missing binary_info in data",
                                         "Failed to parse binary info"}
             /\ (data.binary_info.some /\ ~data.binary_info.v.hashes.some)
                    => result.errors[1] = <<"Failed to parse binary info", "Missing hashes">>

C2_Witness ==
    /\ pc = "done"
    /\ data.binary_info.some
    /\ ~data.binary_info.v.hashes.some
    /\ data.functions.kind = "array"
    /\ result.errors = << <<"Failed to parse binary info", "Missing hashes">> >>

\* C3: every ImportResult has success = (errors is empty) and
\* total_nodes = binaries + functions + strings + libraries.
C3_SuccessIffNoErrors ==
    result.kind = "Ok"
    => /\ result.success = (result.errors = <<>>)
       /\ result.statistics.total_nodes
              = result.statistics.binaries + result.statistics.functions
                  + result.statistics.strings + result.statistics.libraries

\* a batch that ran all phases, met a recoverable store failure and counted
\* nodes and calls
C3_Witness ==
    /\ result.kind = "Ok"
    /\ ~result.success
    /\ faults > 0
    /\ result.statistics.binaries = 1
    /\ result.statistics.total_nodes > 2
    /\ result.statistics.calls_relationships > 0

\* import_data went through all six phases and returned from its last line.
RanAllPhases == pc = "done" /\ result.kind = "Ok" /\ result.statistics.binaries = 1

Parseable(export) == parse_address(export.address).some

IsExportNode(entry) == entry.op = "import_function" /\ entry.node.type = "Export"

IsImportNode(entry) == entry.op = "import_function" /\ entry.node.type = "Import"

IsInvalidExport(error) == error[1] = "Invalid export address"

\* C4: a record-local failure (an unparseable export address, an unresolved
\* call endpoint, a failed CONTAINS, IMPORTS, BELONGS_TO or CALLS upsert)
\* never stops the records after it: when import_data has returned its
\* result, every record of every well-formed section was processed (its
\* request was sent, or it was skipped and counted).
C4_LaterRecordsProcessed ==
    RanAllPhases
    => /\ (IsArray(data.functions))
              => Cardinality(Sent(log, {"create_contains_relationship"}))
                     = Len(data.functions.items)
       /\ (IsArray(data.imports) /\ parse_imports(data.imports).ok)
              => /\ Cardinality(Sent(log, {"create_imports_relationship"}))
                        = Cardinality(parse_imports(data.imports).v.libraries)
                 /\ Cardinality(Sent(log, {"create_belongs_to_relationship"}))
                        = Len(data.imports.items)
       /\ (IsArray(data.exports) /\ parse_exports(data.exports).ok)
              => Cardinality({pos \in DOMAIN log : IsExportNode(log[pos])})
                   + Cardinality({pos \in DOMAIN errors : IsInvalidExport(errors[pos])})
                     = Len(data.exports.items)
       /\ (IsArray(data.calls)
             /\ \A i \in DOMAIN data.calls.items : HasBothEndpoints(data.calls.items[i]))
              => Cardinality(Sent(log, {"create_calls_relationship"}))
                   + calls_out.skipped_count
                     = Len(data.calls.items)

\* C5: with a valid binary_info import_data always returns an ImportResult:
\* no failure of a store operation is raised to the caller, each is on the
\* error list.
C5_StoreFailuresCollected ==
    (pc = "done" /\ data.binary_info.some /\ parse_binary_info(data.binary_info.v).ok)
    => /\ result.kind = "Ok"
       /\ Len(result.errors) >= Failures(log)

BadImports ==
    \/ data.imports.kind = "not_array"
    \/ /\ IsArray(data.imports)
       /\ \E i \in DOMAIN data.imports.items :
              ~data.imports.items[i].name.some \/ ~data.imports.items[i].library.some

\* The imports phase of this batch is over.
PastImports == pc \in {"exports", "calls", "return"} \/ RanAllPhases

IsImportsParseError(error) == error[1] = "Failed to parse imports"

IsImportUid(uid) == Len(uid) >= 4 /\ SubSeq(uid, 1, 4) = <<"i","m","p",":">>

\* The effect of every request of the binary, functions and strings phases
\* that succeeded is in the store.
EarlierWritesKept ==
    \A i \in DOMAIN log :
        log[i].ok =>
            /\ log[i].op = "import_binary" => log[i].a \in DOMAIN store.binaries
            /\ (log[i].op = "import_function" /\ log[i].node.type = "Internal")
                   => log[i].a \in DOMAIN store.functions
            /\ log[i].op = "import_string_node"
                   => /\ log[i].a \in DOMAIN store.strings
                      /\ store.strings[log[i].a].value = log[i].node.value
            /\ log[i].op = "create_contains_relationship"
                   => <<log[i].a, log[i].b>> \in store.contains

\* C6: an imports section that is no array, or has a record without name
\* or library, contributes nothing (no Library, no IMPORTS or BELONGS_TO
\* edge, no import Function, no address-map entry, libraries = 0) but one
\* error; the exports and calls phases still run and what the earlier
\* phases wrote stays in the store.
C6_BadImportsContributeNothing ==
    /\ (BadImports /\ PastImports)
       => /\ Sent(log, {"import_library", "create_imports_relationship",
                        "create_belongs_to_relationship"}) = {}
          /\ {pos \in DOMAIN log : IsImportNode(log[pos])} = {}
          /\ \A k \in DOMAIN address_to_uid : ~IsImportUid(address_to_uid[k])
          /\ stats.libraries = 0
          /\ Cardinality({pos \in DOMAIN errors : IsImportsParseError(errors[pos])}) = 1
          /\ EarlierWritesKept
          /\ RanAllPhases
             => /\ calls_out.ran = (data.calls.kind # "absent")
                /\ (IsArray(data.exports) /\ parse_exports(data.exports).ok)
                       => Cardinality({pos \in DOMAIN log : IsExportNode(log[pos])})
                            = Cardinality({pos \in DOMAIN parse_exports(data.exports).v : Parseable(parse_exports(data.exports).v[pos])})
    /\ (pc = "done" /\ result.kind = "Err") => {pos \in DOMAIN errors : IsImportsParseError(errors[pos])} = {}

\* a good record followed by one without a library: nothing of either is
\* written, and the export and the calls after it are
C6_Witness ==
    /\ RanAllPhases
    /\ IsArray(data.imports)
    /\ Len(data.imports.items) = 2
    /\ data.imports.items[1] = ImpUpper
    /\ ~data.imports.items[2].library.some
    /\ {pos \in DOMAIN log : IsExportNode(log[pos])} # {}
    /\ calls_out.ran
    /\ DOMAIN store.functions # {}

\* The request that upserts the entity at each end of an edge request.
FromUpsert(op) ==
    IF op \in {"create_contains_relationship", "create_imports_relationship"}
    THEN "import_binary" ELSE "import_function"

ToUpsert(op) ==
    IF op \in {"create_imports_relationship", "create_belongs_to_relationship"}
    THEN "import_library" ELSE "import_function"

\* Before position i the batch sent an upsert op of the entity key, and,
\* if completed is asked for, the store carried it out.
UpsertBefore(i, op, key, completed) ==
    \E j \in 1..(i - 1) :
        log[j].op = op /\ log[j].a = key /\ (completed => log[j].ok)

EndpointsBefore(completed) ==
    \A i \in Sent(log, EdgeOps) :
        /\ UpsertBefore(i, FromUpsert(log[i].op), log[i].a, completed)
        /\ UpsertBefore(i, ToUpsert(log[i].op), log[i].b, completed)

\* Every edge of the store has both its endpoint nodes.
NoDanglingEdge ==
    /\ \A e \in store.contains : e[1] \in DOMAIN store.binaries /\ e[2] \in DOMAIN store.functions
    /\ \A e \in store.imports : e[1] \in DOMAIN store.binaries /\ e[2] \in store.libraries
    /\ \A e \in store.belongs_to : e[1] \in DOMAIN store.functions /\ e[2] \in store.libraries
    /\ \A e \in DOMAIN store.calls :
           e[1] \in DOMAIN store.functions /\ e[2] \in DOMAIN store.functions

\* C7 (as claimed): every edge request is sent only after the upserts of
\* both its endpoints have completed successfully earlier in the batch, and
\* so the store holds no edge with a missing endpoint.
C7_EdgesAfterCompletedUpserts == EndpointsBefore(TRUE) /\ NoDanglingEdge

\* C7 (amended): every edge request is sent only after the upsert requests
\* of both its endpoints were sent earlier in the batch, whether or not the
\* store carried them out; the store holds no edge with a missing endpoint.
C7_EdgesAfterUpsertRequests == EndpointsBefore(FALSE) /\ NoDanglingEdge

\* an IMPORTS request that the store accepted after it had refused the
\* Library upsert, and that merged nothing
C7_Witness ==
    \E i \in Sent(log, {"create_imports_relationship"}) :
        /\ log[i].ok
        /\ \E j \in 1..(i - 1) : log[j].op = "import_library" /\ log[j].a = log[i].b /\ ~log[j].ok
        /\ <<log[i].a, log[i].b>> \notin store.imports
        /\ pc = "done"

\* C8: with no store failure, importing the same payload a second time
\* leaves the store exactly as the first import left it, and returns the
\* same statistics.
C8_ReimportIdempotent ==
    (run = "reimport" /\ pc = "done" /\ faults = 0)
    => /\ store = prev.store
       /\ result.statistics = prev.result.statistics

\* a second import of a batch with functions, an import, an export and
\* calls, into a store that an earlier, different import had filled
C8_Witness ==
    /\ run = "reimport"
    /\ pc = "done"
    /\ faults = 0
    /\ result.statistics.calls_relationships > 0
    /\ result.statistics.libraries > 0
    /\ Cardinality(DOMAIN store.functions) > 3
    /\ store.belongs_to # {}
    /\ <<H1 \o <<":">> \o A10, H1 \o <<":","0","x","7","0">> >> \in DOMAIN store.calls

\* The strings phase of this batch is over and its section was an array.
StringsPhaseDone ==
    /\ IsArray(data.strings)
    /\ pc \in {"imports", "exports", "calls", "return"} \/ RanAllPhases

HasValue(string_data) ==
    string_data.kind = "bare" \/ (string_data.kind = "object" /\ string_data.value.some)

\* The distinct normalized values of the strings section.
NormalizedValues ==
    {TrimEndNul(data.strings.items[i].value.v) : i \in {pos \in DOMAIN data.strings.items : HasValue(data.strings.items[pos])}}

\* C9: a strings section with k distinct normalized values gets exactly k
\* String upserts, one per key, and statistics.strings = k.
C9_OneUpsertPerDistinctString ==
    StringsPhaseDone
    => LET sent == Sent(log, {"import_string_node"})
       IN  /\ Cardinality(sent) = Cardinality(NormalizedValues)
           /\ {log[i].node.value : i \in sent} = NormalizedValues
           /\ Cardinality({log[i].a : i \in sent}) = Cardinality(NormalizedValues)
           /\ stats.strings = Cardinality(NormalizedValues)

\* five records with two distinct values: two String nodes
C9_Witness ==
    /\ RanAllPhases
    /\ IsArray(data.strings)
    /\ Cardinality({pos \in DOMAIN data.strings.items : HasValue(data.strings.items[pos])}) = 5
    /\ Cardinality(NormalizedValues) = 2
    /\ result.statistics.strings = 2
    /\ Cardinality(DOMAIN store.strings) = 2

\* The records of the strings section that have the normalized value v.
RecordsOf(v) ==
    {i \in {pos \in DOMAIN data.strings.items : HasValue(data.strings.items[pos])} : TrimEndNul(data.strings.items[i].value.v) = v}

MinOf(S) == CHOOSE x \in S : \A y \in S : x <= y

MaxOf(S) == CHOOSE x \in S : \A y \in S : x >= y

\* The address a string record gives its StringNode.
RecordAddress(string_data) ==
    IF string_data.kind = "bare" THEN None ELSE string_data.address

\* C10 (as claimed): the String node sent for a key carries the address of
\* the last record of that key in input order.
C10_LastRecordWins ==
    StringsPhaseDone
    => \A i \in Sent(log, {"import_string_node"}) :
           log[i].node.address
               = RecordAddress(data.strings.items[MaxOf(RecordsOf(log[i].node.value))])

\* C10 (amended): the String node sent for a key carries the address of
\* the first record of that key in input order.
C10_FirstRecordWins ==
    StringsPhaseDone
    => \A i \in Sent(log, {"import_string_node"}) :
           log[i].node.address
               = RecordAddress(data.strings.items[MinOf(RecordsOf(log[i].node.value))])

\* two records of one key with different addresses, the node sent and stored
C10_Witness ==
    /\ StringsPhaseDone
    /\ \E i \in Sent(log, {"import_string_node"}) :
           /\ log[i].ok
           /\ Cardinality(RecordsOf(log[i].node.value)) >= 2
           /\ RecordAddress(data.strings.items[MinOf(RecordsOf(log[i].node.value))])
                  # RecordAddress(data.strings.items[MaxOf(RecordsOf(log[i].node.value))])
           /\ store.strings[log[i].a].address = <<"0","x","3","0">>

\* ------------------------------------------------------------------------
\* Libraries (C11)
\* ------------------------------------------------------------------------
\* The imports section is an array all of whose records have name and library.
GoodImports == IsArray(data.imports) /\ ~BadImports

\* The distinct lowercase library names of the imports section.
LowercaseNames ==
    {ToLower(data.imports.items[i].library.v) : i \in DOMAIN data.imports.items}

FunctionsPhaseDone == pc = "strings" /\ IsArray(data.functions)

\* The Function that parse_functions makes of one record.
FunctionOf(func_data) == ParseFunctionRecords(<<func_data>>, binary.hash)[1]

\* C12: after the functions phase, for every function record that has an
\* address the address map has the record's raw address string and, when
\* there is one, its normalized form as keys, both mapped to the
\* identifier of the record's Function, so that a call endpoint repeating
\* the raw string resolves to that Function.
C12_RawAndNormalizedKeys ==
    FunctionsPhaseDone
    => \A i \in DOMAIN data.functions.items :
           LET func_data  == data.functions.items[i]
               raw        == func_data.address.v
               normalized == normalize_address(raw)
               uid        == FunctionOf(func_data).uid
           IN  func_data.address.some
               => /\ raw \in DOMAIN address_to_uid
                  /\ address_to_uid[raw] = uid
                  /\ normalized.some
                     => /\ normalized.v \in DOMAIN address_to_uid
                        /\ address_to_uid[normalized.v] = uid
                  /\ Resolve(address_to_uid, raw) = Some(uid)

\* ------------------------------------------------------------------------
\* The address map across the exports phase (C13)
\* ------------------------------------------------------------------------
\* The keys the step adds to the address map.
NewKeys == DOMAIN address_to_uid' \ DOMAIN address_to_uid

\* k is the canonical address of an export record neither of whose address
\* forms was a key before the phase, and is mapped to that export's Function.
AddedByExport(k) ==
    /\ IsArray(data.exports)
    /\ \E i \in DOMAIN data.exports.items :
           LET export_data == data.exports.items[i]
               raw         == export_data.address.v
               normalized  == normalize_address(raw)
           IN  /\ export_data.address.some
               /\ normalized.some
               /\ k = normalized.v
               /\ raw \notin DOMAIN address_to_uid
               /\ normalized.v \notin DOMAIN address_to_uid
               /\ address_to_uid'[k] = binary.hash \o <<":">> \o normalized.v

\* C13: the exports phase leaves every entry the address map had before it
\* as it was, and every key it adds is the canonical address of an export
\* neither of whose address forms (raw, normalized) was a key.
C13_ExportsKeepEarlierEntries ==
    [][pc = "exports"
       => /\ \A k \in DOMAIN address_to_uid :
                 k \in DOMAIN address_to_uid' /\ address_to_uid'[k] = address_to_uid[k]
          /\ \A k \in NewKeys : AddedByExport(k)]_vars

\* after the exports phase: the export at the import's address 0x50 left
\* the import's entry alone, the export at 0x60 was added
C13_Witness ==
    /\ pc = "calls"
    /\ IsArray(data.exports)
    /\ data.exports.items = <<ExpAtImport, ExpNew>>
    /\ <<"0","x","5","0">> \in DOMAIN address_to_uid
    /\ IsImportUid(address_to_uid[<<"0","x","5","0">>])
    /\ <<"0","x","6","0">> \in DOMAIN address_to_uid
    /\ address_to_uid[<<"0","x","6","0">>] = H1 \o <<":","0","x","6","0">>

\* ------------------------------------------------------------------------
\* The edges of the Functions of a batch (C14)
\* ------------------------------------------------------------------------
\* import_data has returned its result and the store failed no request.
DoneWithoutFailures == RanAllPhases /\ faults = 0

\* Every Internal Function upserted by the batch has its CONTAINS edge.
InternalsContained ==
    \A i \in DOMAIN log :
        (log[i].op = "import_function" /\ log[i].node.type = "Internal")
            => <<binary.hash, log[i].node.uid>> \in store.contains

\* Every Export Function upserted by the batch has its CONTAINS edge.
ExportsContained ==
    \A i \in DOMAIN log :
        IsExportNode(log[i]) => <<binary.hash, log[i].node.uid>> \in store.contains

\* Every Import Function of the batch has the BELONGS_TO edge to its Library.
ImportsBelong ==
    GoodImports
    => \A i \in DOMAIN data.imports.items :
           LET import == parse_imports(data.imports).v.imports[i]
           IN  /\ \E j \in DOMAIN log : /\ IsImportNode(log[j])
                                        /\ log[j].node.uid = ImportFunction(import, binary.hash).uid
               /\ <<ImportFunction(import, binary.hash).uid, ToLower(import.library)>>
                      \in store.belongs_to

\* No Import Function is at the far end of a CONTAINS edge.
NoImportContained ==
    \A i \in DOMAIN log :
        IsImportNode(log[i]) => \A e \in store.contains : e[2] # log[i].node.uid

\* C14: after a batch without store failures every Internal or Export
\* Function the batch upserted has a CONTAINS edge from the batch's Binary,
\* every Import Function has a BELONGS_TO edge to its Library, and no
\* Import Function has a CONTAINS edge.
C14_EveryFunctionHasItsEdge ==
    DoneWithoutFailures
    => InternalsContained /\ ExportsContained /\ ImportsBelong /\ NoImportContained

\* ------------------------------------------------------------------------
\* The functions of src/utils/uid.rs and the key derivations, called on
\* their own.  In these specifications data is the call (the function and
\* its arguments), result the sequence of the values returned so far, pc
\* the caller's position; the other variables keep their initial values.
\* ------------------------------------------------------------------------
MaxAddrLen == 3

AddrChars == {"0", "1", "9", "a", "F", "x", "X", "z", " ", "+"}

\* the strings of the tests of uid.rs, 52-83
TestAddresses ==
    { <<"0","x","1","0","0","0">>, <<"0","X","1","0","0","0">>, <<"0","x","A","B","C","D">>,
      <<"4","0","9","6">>, <<"0">>, <<"a","b","c","d">>, <<"A","B","C","D">>,
      <<>>, <<" "," "," ">>, <<"x","y","z">>,
      <<"0","X","0","0","0","0","1","0","0","0">> }

AddressStrings == SeqsUpTo(AddrChars, MaxAddrLen) \cup TestAddresses

Call(fn, args) == [fn |-> fn, args |-> args]

Idle ==
    UNCHANGED <<store, binary, address_to_uid, stats, errors, log, calls_out,
                run, prev, faults, query, answer>>

\* address strings in several encodings, among them pairs that write the
\* same number, and strings that are no address
SampleAddresses ==
    { <<"0","x","1","0">>, <<"1","6">>, <<"0","X","1","0">>, <<"0","x","0","1","0">>,
      <<" ","1","6">>, <<"+","1","6">>, <<"1","0">>, <<"a">>, <<"0","x","A">>, <<"A">>,
      <<"0">>, <<"0","x","0">>, <<"z","z">>, <<>> }

\* The address field of a record: one of the samples, or no field at all.
AddressFields == {None} \cup {Some(s) : s \in SampleAddresses}

\* parse_functions on two records of one binary
FunctionsCalls ==
    {Call("parse_functions",
          <<Array(<<FunctionRecord(Some(<<"f">>), a1, NoneNum),
                    FunctionRecord(Some(<<"g">>), a2, NoneNum)>>), H1>>) :
        a1 \in AddressFields, a2 \in AddressFields}

\* the exports phase on two export records of one binary
ExportsCalls ==
    {Call("exports",
          <<Array(<<ExportRecord(Some(<<"f">>), Some(s1)),
                    ExportRecord(Some(<<"g">>), Some(s2))>>), H1>>) :
        s1 \in SampleAddresses, s2 \in SampleAddresses}

\* string values that differ at their end only, and some that differ elsewhere
SampleValues ==
    { <<"a">>, <<"a","NUL">>, <<"a","NUL","NUL">>, <<"a"," ">>, <<"a","\t">>,
      <<"a"," ","NUL">>, <<"a","NUL"," ">>, <<" ","a">>, <<"A">>, <<"b">>, <<>>, <<"NUL">> }

\* parse_strings on one section of two records, for two binaries
StringsCalls ==
    {Call("parse_strings",
          <<Array(<<StringRecord("object", Some(v1), Some(<<"0","x","3","0">>)),
                    StringRecord("bare", Some(v2), None)>>), ha, hb>>) :
        v1 \in SampleValues, v2 \in SampleValues, ha \in {H1, H2}, hb \in {H1, H2}}

SampleLibraries == { <<"L","i","b">>, <<"l","i","b">>, <<"L","I","B">>, <<"k","3","2">> }

\* the imports phase on one section of two records, for two binaries
ImportsCalls ==
    {Call("imports",
          <<Array(<<ImportRecord(Some(n1), Some(l1), Some(<<"0","x","5","0">>)),
                    ImportRecord(Some(n2), Some(l2), None)>>), ha, hb>>) :
        n1 \in {<<"p">>, <<"q">>}, n2 \in {<<"p">>, <<"q">>},
        l1 \in SampleLibraries, l2 \in SampleLibraries,
        ha \in {H1, H2}, hb \in {H1, H2}}

MaxTypeLen == 3

TypeChars == {"P", "E", "e", "L", "F", "M", "x"}

\* file_type.type strings: those of the spec's examples, what file(1)
\* prints for a stripped ELF, and others that hold two of the keywords
SampleTypes ==
    { <<"P","E","3","2","+">>, <<"E","L","F","6","4">>, <<"M","a","c","h","-","O">>,
      <<"r","a","w">>, <<"e","l","f">>, <<"m","a","c","h","o">>, <<"p","e">>,
      <<"E","L","F"," ","s","t","r","i","p","p","e","d">>,
      <<"M","a","c","h","-","O"," ","P","E","F">>,
      <<"M","A","C","H","E","L","F">>, <<>> }

TypeStrings == SeqsUpTo(TypeChars, MaxTypeLen) \cup SampleTypes

\* parse_binary_info on a binary_info that is complete but for its type
BinaryInfoCalls ==
    {Call("parse_binary_info",
          <<BinaryInfo(Hashes(Some(H1), None), Some(<<"b">>), None, FileType(Some(type), None))>>) :
        type \in TypeStrings}

UidInit ==
    /\ data \in {Call("normalize_address", <<s>>) : s \in AddressStrings}
                    \cup FunctionsCalls \cup ExportsCalls \cup StringsCalls
                    \cup ImportsCalls \cup BinaryInfoCalls
    /\ pc = "call"
    /\ result = <<>>
    /\ store = EmptyStore
    /\ binary = NoBinary
    /\ address_to_uid = EmptyMap
    /\ stats = ZeroStats
    /\ errors = <<>>
    /\ log = <<>>
    /\ calls_out = NoCalls
    /\ run = "import"
    /\ prev = [store |-> EmptyStore, result |-> NoResult]
    /\ faults = 0
    /\ query = NoQuery
    /\ answer = <<>>

\* normalize_address(address_str)
NormalizeAddress ==
    /\ pc = "call"
    /\ data.fn = "normalize_address"
    /\ result' = <<normalize_address(data.args[1])>>
    /\ pc' = "returned"
    /\ UNCHANGED data
    /\ Idle

\* normalize_address applied to the canonical string it returned
NormalizeAgain ==
    /\ pc = "returned"
    /\ data.fn = "normalize_address"
    /\ result[1].some
    /\ result' = Append(result, normalize_address(result[1].v))
    /\ pc' = "returned_again"
    /\ UNCHANGED data
    /\ Idle

\* parse_functions(functions_data, binary_hash): the Functions of the records
DeriveFunctionKeys ==
    /\ pc = "call"
    /\ data.fn = "parse_functions"
    /\ result' = parse_functions(data.args[1], data.args[2]).v
    /\ pc' = "returned"
    /\ UNCHANGED data
    /\ Idle

\* session.rs 171-196: the Functions the exports phase sends to the store
DeriveExportKeys ==
    /\ pc = "call"
    /\ data.fn = "exports"
    /\ LET reqs == ExportsRequests(parse_exports(data.args[1]).v, data.args[2])
       IN  result' = [i \in DOMAIN reqs |->
                         IF reqs[i].op = "import_function" THEN Some(reqs[i].node) ELSE None]
    /\ pc' = "returned"
    /\ UNCHANGED data
    /\ Idle

\* parse_strings(strings_data, binary_hash), once for each of two binaries
DeriveStringKeys ==
    /\ pc = "call"
    /\ data.fn = "parse_strings"
    /\ result' = << parse_strings(data.args[1], data.args[2]).v,
                    parse_strings(data.args[1], data.args[3]).v >>
    /\ pc' = "returned"
    /\ UNCHANGED data
    /\ Idle

\* session.rs 139-146: the Functions the imports phase makes of the
\* records, once for each of two binaries
DeriveImportKeys ==
    /\ pc = "call"
    /\ data.fn = "imports"
    /\ LET imports == parse_imports(data.args[1]).v.imports
       IN  result' = << [i \in DOMAIN imports |-> ImportFunction(imports[i], data.args[2])],
                        [i \in DOMAIN imports |-> ImportFunction(imports[i], data.args[3])] >>
    /\ pc' = "returned"
    /\ UNCHANGED data
    /\ Idle

\* parse_binary_info(binary_info)
ParseBinaryInfo ==
    /\ pc = "call"
    /\ data.fn = "parse_binary_info"
    /\ result' = <<parse_binary_info(data.args[1].v)>>
    /\ pc' = "returned"
    /\ UNCHANGED data
    /\ Idle

UidNext ==
    \/ NormalizeAddress
    \/ NormalizeAgain
    \/ DeriveFunctionKeys
    \/ DeriveExportKeys
    \/ DeriveStringKeys
    \/ DeriveImportKeys
    \/ ParseBinaryInfo

UidSpec == UidInit /\ [][UidNext]_vars

\* ------------------------------------------------------------------------
\* The address policy (C15)
\* ------------------------------------------------------------------------
DecimalChars == {"0","1","2","3","4","5","6","7","8","9"}

LowerHexChars == DecimalChars \cup {"a","b","c","d","e","f"}

HexLetters == {"a","b","c","d","e","f","A","B","C","D","E","F"}

\* The characters a number of the radix is written with.
CharsOf(radix) == IF radix = 10 THEN DecimalChars ELSE DecimalChars \cup HexLetters

\* The number a character stands for.
CharNumber(c) ==
    CASE c = "0" -> 0 [] c = "1" -> 1 [] c = "2" -> 2 [] c = "3" -> 3 [] c = "4" -> 4
      [] c = "5" -> 5 [] c = "6" -> 6 [] c = "7" -> 7 [] c = "8" -> 8 [] c = "9" -> 9
      [] c \in {"a", "A"} -> 10 [] c \in {"b", "B"} -> 11 [] c \in {"c", "C"} -> 12
      [] c \in {"d", "D"} -> 13 [] c \in {"e", "E"} -> 14 [] c \in {"f", "F"} -> 15

RECURSIVE Pow(_, _)
Pow(b, n) == IF n = 0 THEN 1 ELSE b * Pow(b, n - 1)

RECURSIVE NumberOf(_, _)
\* The number the digit string s writes in the radix, most significant first.
NumberOf(s, radix) ==
    IF s = <<>> THEN 0
    ELSE CharNumber(Head(s)) * Pow(radix, Len(s) - 1) + NumberOf(Tail(s), radix)

\* s is a number of the radix: at least one digit and digits only.
IsNumber(s, radix) == s # <<>> /\ \A i \in DOMAIN s : s[i] \in CharsOf(radix)

\* The same, with one "+" allowed before the digits.
Unsigned(s) == IF s # <<>> /\ Head(s) = "+" THEN Tail(s) ELSE s

\* The four rules on the trimmed input: the digit string to read and the
\* radix to read it in.
Policy(address_str) ==
    LET trimmed == Trim(address_str)
    IN  IF HasPrefix0x(trimmed)
        THEN [body |-> SubSeq(trimmed, 3, Len(trimmed)), radix |-> 16]
        ELSE IF \E i \in DOMAIN trimmed : trimmed[i] \in HexLetters
        THEN [body |-> trimmed, radix |-> 16]
        ELSE IF IsNumber(Unsigned(trimmed), 10)
        THEN [body |-> trimmed, radix |-> 10]
        ELSE [body |-> trimmed, radix |-> 16]

\* text is "0x" and the lowercase hexadecimal digits of n, no leading zero.
IsCanonicalOf(text, n) ==
    /\ Len(text) >= 3
    /\ SubSeq(text, 1, 2) = <<"0", "x">>
    /\ LET digits == SubSeq(text, 3, Len(text))
       IN  /\ \A i \in DOMAIN digits : digits[i] \in LowerHexChars
           /\ Len(digits) > 1 => digits[1] # "0"
           /\ NumberOf(digits, 16) = n

\* The first value normalize_address returned for the input of the call.
Returned == data.fn = "normalize_address" /\ pc # "call"

\* C15 as stated: the four rules pick the digit string and the radix; a
\* digit string that is a number of the radix gives "0x" and the lowercase
\* hexadecimal digits of its value without leading zeros; every other
\* input (empty, blank, with a character that is no hexadecimal digit) is
\* unparseable.
C15_FourRulePolicy ==
    Returned
    => LET p == Policy(data.args[1])
       IN  IF IsNumber(p.body, p.radix)
           THEN /\ result[1].some
                /\ IsCanonicalOf(result[1].v, NumberOf(p.body, p.radix))
           ELSE ~result[1].some

\* C15 with the sign: as C15_FourRulePolicy, but one "+" right before the
\* digits (at the start of the trimmed input or after the 0x/0X prefix) is
\* accepted and ignored.
C15_FourRulePolicySigned ==
    Returned
    => LET p == Policy(data.args[1])
       IN  IF IsNumber(Unsigned(p.body), p.radix)
           THEN /\ result[1].some
                /\ IsCanonicalOf(result[1].v, NumberOf(Unsigned(p.body), p.radix))
           ELSE ~result[1].some

\* "0X00001000" came back as "0x1000"
C15_Witness ==
    /\ Returned
    /\ data.args[1] = <<"0","X","0","0","0","0","1","0","0","0">>
    /\ result[1] = Some(<<"0","x","1","0","0","0">>)

\* ------------------------------------------------------------------------
\* Idempotence of normalize_address (C16)
\* ------------------------------------------------------------------------
\* C16: when normalize_address succeeds with the canonical string c,
\* normalize_address(c) succeeds and returns c.
C16_NormalizeIdempotent ==
    (data.fn = "normalize_address" /\ pc = "returned_again")
    => /\ result[1].some
       /\ result[2] = result[1]

\* a decimal, a 0X-prefixed and a bare hexadecimal input, normalized twice
C16_Witness ==
    /\ pc = "returned_again"
    /\ data.fn = "normalize_address"
    /\ data.args[1] \in {<<"1","9">>, <<"0","X","F">>, <<"a","F">>}
    /\ result[2].some
    /\ result[2].v \in {<<"0","x","1","3">>, <<"0","x","f">>, <<"0","x","a","f">>}

\* ------------------------------------------------------------------------
\* The key of an internal or export Function (C17)
\* ------------------------------------------------------------------------
\* The number an address string writes, -1 when it writes none.
AddressNumber(address_str) ==
    LET p == Policy(address_str)
    IN  IF IsNumber(Unsigned(p.body), p.radix) THEN NumberOf(Unsigned(p.body), p.radix) ELSE -1

\* The number the address field of a function record stands for: a record
\* without the field, or with one that writes no number, is filed at 0.
FunctionNumber(address) ==
    IF address.some /\ AddressNumber(address.v) >= 0 THEN AddressNumber(address.v) ELSE 0

\* function is keyed "{binary_hash}:{canonical address of n}" and stores
\* that canonical address.
KeyedByAddress(function, binary_hash, n) ==
    /\ function.address.some
    /\ IsCanonicalOf(function.address.v, n)
    /\ function.uid = binary_hash \o <<":">> \o function.address.v

\* C17: an internal or export Function is keyed "{binary_hash}:{canonical
\* address}" and stores the canonical address; two records of one binary
\* get the same key exactly when their addresses write the same number (a
\* function record without a readable address standing for 0, an export
\* record without one giving no Function).
C17_FunctionKeyIsHashAndAddress ==
    /\ (data.fn = "parse_functions" /\ pc = "returned")
       => LET items == data.args[1].items
          IN  /\ Len(result) = 2
              /\ \A i \in 1..2 :
                     KeyedByAddress(result[i], data.args[2], FunctionNumber(items[i].address))
              /\ (result[1].uid = result[2].uid)
                     <=> (FunctionNumber(items[1].address) = FunctionNumber(items[2].address))
    /\ (data.fn = "exports" /\ pc = "returned")
       => LET items == data.args[1].items
          IN  /\ Len(result) = 2
              /\ \A i \in 1..2 :
                     IF AddressNumber(items[i].address.v) >= 0
                     THEN /\ result[i].some
                          /\ KeyedByAddress(result[i].v, data.args[2],
                                            AddressNumber(items[i].address.v))
                     ELSE ~result[i].some
              /\ (result[1].some /\ result[2].some)
                 => ((result[1].v.uid = result[2].v.uid)
                        <=> (AddressNumber(items[1].address.v)
                                = AddressNumber(items[2].address.v)))

\* "0x10" and "16" of one binary: one key, h1:0x10
C17_Witness ==
    /\ data.fn = "parse_functions"
    /\ pc = "returned"
    /\ data.args[1].items[1].address = Some(<<"0","x","1","0">>)
    /\ data.args[1].items[2].address = Some(<<"1","6">>)
    /\ result[1].uid = H1 \o <<":","0","x","1","0">>
    /\ result[2].uid = result[1].uid

\* ------------------------------------------------------------------------
\* The key of a String (C18)
\* ------------------------------------------------------------------------
\* value without its longest tail made of the given characters
WithoutTail(value, chars) ==
    LET cuts == {n \in 0..Len(value) : \A i \in (n + 1)..Len(value) : value[i] \in chars}
    IN  SubSeq(value, 1, CHOOSE n \in cuts : \A m \in cuts : n <= m)

\* The two string records of the call and the nodes made of them for the
\* first binary.
StringsReturned == data.fn = "parse_strings" /\ pc = "returned"

ValueOf(i) == data.args[1].items[i].value.v

\* C18 as stated: two string records of one binary get the same key
\* exactly when their values are equal up to trailing whitespace and
\* trailing NUL characters.
C18_KeyIgnoresTrailingBlanksAndNuls ==
    StringsReturned
    => /\ Len(result[1]) = 2
       /\ (result[1][1].uid = result[1][2].uid)
              <=> (WithoutTail(ValueOf(1), {"NUL", " ", "\t"})
                      = WithoutTail(ValueOf(2), {"NUL", " ", "\t"}))

\* C18 for NUL alone: two string records of one binary get the same key
\* exactly when their values are equal up to trailing NUL characters; the
\* node's value is the record's value without its trailing NULs.
C18_KeyIgnoresTrailingNuls ==
    StringsReturned
    => /\ Len(result[1]) = 2
       /\ (result[1][1].uid = result[1][2].uid)
              <=> (WithoutTail(ValueOf(1), {"NUL"}) = WithoutTail(ValueOf(2), {"NUL"}))
       /\ \A i \in 1..2 : result[1][i].value = WithoutTail(ValueOf(i), {"NUL"})

\* "a" and "a\0\0": one key
C18_Witness ==
    /\ StringsReturned
    /\ ValueOf(1) = <<"a">>
    /\ ValueOf(2) = <<"a","NUL","NUL">>
    /\ result[1][1].uid = result[1][2].uid
    /\ result[1][2].value = <<"a">>

\* ------------------------------------------------------------------------
\* The String key and the binary (C19)
\* ------------------------------------------------------------------------
\* key begins with "str:{binary_hash}:".
HasStringPrefix(key, binary_hash) ==
    LET prefix == <<"s","t","r",":">> \o binary_hash \o <<":">>
    IN  Len(key) >= Len(prefix) /\ SubSeq(key, 1, Len(prefix)) = prefix

\* What follows "str:{binary_hash}:" in key.
ContentPart(key, binary_hash) == SubSeq(key, Len(binary_hash) + 6, Len(key))

ImportsReturned == data.fn = "imports" /\ pc = "returned"

ImportRecordOf(i) == data.args[1].items[i]

\* The key "imp:{binary_hash}:{library}:{name}".
ImportKey(binary_hash, library, name) ==
    <<"i","m","p",":">> \o binary_hash \o <<":">> \o library \o <<":">> \o name

BinaryInfoReturned == data.fn = "parse_binary_info" /\ pc = "returned"

\* The type string of the call, in upper case.
TypeUpper == ToUpper(data.args[1].v.file_type.v.type.v)

\* C21: every type string is classified, without an error: Elf when it
\* contains "ELF" in any letter case, MachO when it contains "MACH" and not
\* "ELF", PE otherwise.
C21_FormatByKeyword ==
    BinaryInfoReturned
    => /\ result[1].ok
       /\ result[1].v.format =
              IF Contains(TypeUpper, <<"E","L","F">>) THEN "Elf"
              ELSE IF Contains(TypeUpper, <<"M","A","C","H">>) THEN "MachO"
              ELSE "PE"


\* ---------------------------------------------------------------------------
\* call_path_analyzer.rs: the queries on the imported graph
\* ---------------------------------------------------------------------------

\* WHERE f.name = $function_name OR f.uid = $function_name
Matching(st, function_name) ==
    {u \in DOMAIN st.functions :
        st.functions[u].name = function_name \/ u = function_name}

\* The paths of exactly k CALLS relationships, each a sequence of
\* <<from_uid, to_uid>>; a path of a MATCH uses no relationship twice.
RECURSIVE PathsOfLength(_, _)
PathsOfLength(st, k) ==
    IF k < 1 THEN {}
    ELSE IF k = 1 THEN {<<e>> : e \in DOMAIN st.calls}
    ELSE LET shorter == PathsOfLength(st, k - 1)
         IN  {Append(x[1], x[2]) :
                x \in {y \in shorter \X DOMAIN st.calls :
                          /\ y[1][k - 1][2] = y[2][1]
                          /\ y[2] \notin Range(y[1])}}

\* -[:CALLS*lo..hi]->
VariableLengthPaths(st, lo, hi) == UNION {PathsOfLength(st, k) : k \in lo..hi}

\* nodes(path)
PathNodes(p) == <<p[1][1]>> \o [i \in DOMAIN p |-> p[i][2]]

\* RETURN path, length(path), node_names, node_addresses, call_offsets
PathRow(st, p) ==
    LET ns == PathNodes(p)
    IN  [path           |-> p,
         path_length    |-> Len(p),
         node_names     |-> [i \in DOMAIN ns |-> st.functions[ns[i]].name],
         node_addresses |-> [i \in DOMAIN ns |-> st.functions[ns[i]].address],
         call_offsets   |-> [i \in DOMAIN p |-> st.calls[p[i]].offset]]

\* slice.get(i).cloned(), i counted from 0
GetCloned(s, i) == IF i + 1 \in DOMAIN s THEN Some(s[i + 1]) ELSE None

CallPathNode(id, name, address, depth, call_site, call_type) ==
    [id |-> id, name |-> name, address |-> address, depth |-> depth,
     call_site |-> call_site, call_type |-> call_type]

\* CallPath::new and UpwardCallChain::new
CallPath_new(id) == [id |-> id, nodes |-> <<>>, length |-> 0]

\* CallPath::add_node and UpwardCallChain::add_node
add_node(path, node) ==
    [path EXCEPT !.length = node.depth, !.nodes = Append(@, node)]

\* add_node for each node of the sequence, in order
RECURSIVE AddNodes(_, _)
AddNodes(path, nodes) ==
    IF nodes = <<>> THEN path
    ELSE AddNodes(add_node(path, Head(nodes)), Tail(nodes))

\* The rows of the MATCH of query_call_paths
CallPathRows(st, function_name, max_depth) ==
    {PathRow(st, p) :
        p \in {q \in VariableLengthPaths(st, 1, max_depth) :
                  q[1][1] \in Matching(st, function_name)}}

\* The CallPath of one row with, on each node, the offset of the call it makes
CallPathOfRowCallsMade(row, path_counter) ==
    AddNodes(CallPath_new(<<"path", path_counter>>),
             [k \in DOMAIN row.node_names |->
                LET i == k - 1
                IN  CallPathNode(<<row.node_names[k], i>>,
                                 row.node_names[k],
                                 Some(UnwrapOr(GetCloned(row.node_addresses, i),
                                               <<"N","/","A">>)),
                                 i,
                                 GetCloned(row.call_offsets, i),
                                 "Direct")])

\* The CallPath of one row; i is the node's index counted from 0
CallPathOfRow(row, path_counter) ==
    AddNodes(CallPath_new(<<"path", path_counter>>),
             [k \in DOMAIN row.node_names |->
                LET i == k - 1
                IN  CallPathNode(<<row.node_names[k], i>>,
                                 row.node_names[k],
                                 Some(UnwrapOr(GetCloned(row.node_addresses, i),
                                               <<"N","/","A">>)),
                                 i,
                                 IF i > 0 THEN GetCloned(row.call_offsets, i - 1) ELSE None,
                                 "Direct")])

\* query_call_paths, given the rows in the order the store returned them
query_call_paths(rows, function_name) ==
    LET NonEmpty(r) == r.node_names # <<>>
        kept  == {i \in DOMAIN rows : NonEmpty(rows[i])}
        built == [i \in DOMAIN rows |-> CallPathOfRow(rows[i], i)]
        paths == [k \in 1..Cardinality(kept) |->
                    built[CHOOSE i \in kept : Cardinality({j \in kept : j < i}) = k - 1]]
    IN  IF paths = <<>>
        THEN <<add_node(CallPath_new(<<"single_path">>),
                        CallPathNode(<<"single_node">>, function_name,
                                     Some(<<"0","x","1","0","0","0">>), 0, None, "Entry"))>>
        ELSE paths

\* The rows of the MATCH of query_upward_call_chain
UpwardRows(st, function_name, max_depth) ==
    {PathRow(st, p) :
        p \in {q \in VariableLengthPaths(st, 1, max_depth) :
                  q[Len(q)][2] \in Matching(st, function_name)}}

\* The UpwardCallChain of one row
UpwardChainOfRow(row, chain_counter) ==
    AddNodes(CallPath_new(<<"upward_chain", chain_counter>>),
             [k \in DOMAIN row.node_names |->
                LET i == k - 1
                IN  CallPathNode(<<row.node_names[k], i>>,
                                 row.node_names[k],
                                 Some(UnwrapOr(GetCloned(row.node_addresses, i),
                                               <<"N","/","A">>)),
                                 i,
                                 IF i < Len(row.node_names) - 1
                                 THEN GetCloned(row.call_offsets, i) ELSE None,
                                 "Upward")])

\* query_upward_call_chain returning the chains found and nothing more
query_upward_call_chain_found_only(rows, function_name) ==
    [i \in DOMAIN rows |-> UpwardChainOfRow(rows[i], i)]

\* query_upward_call_chain, given the rows in the order the store returned them
query_upward_call_chain(rows, function_name) ==
    LET NonEmpty(r) == r.node_names # <<>>
        kept   == {i \in DOMAIN rows : NonEmpty(rows[i])}
        built  == [i \in DOMAIN rows |-> UpwardChainOfRow(rows[i], i)]
        chains == [k \in 1..Cardinality(kept) |->
                    built[CHOOSE i \in kept : Cardinality({j \in kept : j < i}) = k - 1]]
    IN  IF chains = <<>>
        THEN <<add_node(CallPath_new(<<"single_upward_chain">>),
                        CallPathNode(<<"single_node">>, function_name,
                                     Some(<<"0","x","1","0","0","0">>), 0, None, "Root"))>>
        ELSE chains

\* UpwardCallChain::target_function
target_function(chain) ==
    IF chain.nodes = <<>> THEN None ELSE Some(chain.nodes[1])

\* The characters of the offsets, in code point order
CodePoints ==
    <<"0","1","2","3","4","5","6","7","8","9","a","b","c","d","e","f","x">>

\* a <= b as the store compares two strings in ORDER BY
RECURSIVE StringLeq(_, _)
StringLeq(a, b) ==
    IF a = <<>> THEN TRUE
    ELSE IF b = <<>> THEN FALSE
    ELSE IF a[1] = b[1] THEN StringLeq(Tail(a), Tail(b))
    ELSE IndexOf(CodePoints, a[1]) < IndexOf(CodePoints, b[1])

\* The rows of MATCH (f)-[r:CALLS]->(callee) WHERE f matches
CallSequenceRows(st, function_name) ==
    {[edge      |-> e,
      caller    |-> st.functions[e[1]].name,
      callee    |-> st.functions[e[2]].name,
      call_site |-> st.calls[e].offset] :
        e \in {d \in DOMAIN st.calls : d[1] \in Matching(st, function_name)}}

\* The rows of MATCH (caller)-[r:CALLS]->(callee) WHERE callee matches
CallerSequenceRows(st, function_name) ==
    {[edge           |-> e,
      caller_name    |-> st.functions[e[1]].name,
      caller_address |-> st.functions[e[1]].address,
      call_site      |-> st.calls[e].offset,
      callee_name    |-> st.functions[e[2]].name,
      callee_address |-> st.functions[e[2]].address] :
        e \in {d \in DOMAIN st.calls : d[2] \in Matching(st, function_name)}}

\* The orders ORDER BY r.offset may return the rows in
OrderedByOffset(rows) ==
    {o \in Orderings(rows) :
        \A i, j \in DOMAIN o : i < j => StringLeq(o[i].call_site, o[j].call_site)}

\* The orders a MATCH without ORDER BY may return the rows in
OrderedByNothing(rows) == Orderings(rows)

\* The orders ORDER BY path_length may return the rows in
OrderedByPathLength(rows) ==
    {o \in Orderings(rows) :
        \A i, j \in DOMAIN o : i < j => o[i].path_length <= o[j].path_length}

\* query_call_sequences: every column of a row is a string
query_call_sequences(rows) ==
    [i \in DOMAIN rows |->
        [id        |-> <<"seq", i>>,
         caller    |-> rows[i].caller,
         callee    |-> rows[i].callee,
         order     |-> i,
         call_site |-> rows[i].call_site]]

\* query_caller_sequences: every column of a row is a string
query_caller_sequences(rows) ==
    [i \in DOMAIN rows |->
        [id             |-> <<"caller_seq", i>>,
         caller_name    |-> rows[i].caller_name,
         caller_address |-> rows[i].caller_address,
         callee_name    |-> rows[i].callee_name,
         callee_address |-> rows[i].callee_address,
         order          |-> i,
         call_site      |-> rows[i].call_site]]

\* The longest cycle the indirect query of find_recursive_calls looks for
MaxCycle == 10

\* The rows of MATCH (f)-[:CALLS]->(f)
DirectRows(st, function_name) ==
    {[f |-> f, function_name |-> st.functions[f].name] :
        f \in {u \in Matching(st, function_name) : <<u, u>> \in DOMAIN st.calls}}

\* The rows of MATCH path = (f)-[:CALLS*2..10]->(f)
IndirectRows(st, function_name) ==
    {[path |-> p, depth |-> Len(p), function_name |-> st.functions[p[1][1]].name] :
        p \in {q \in VariableLengthPaths(st, 2, MaxCycle) :
                  /\ q[1][1] \in Matching(st, function_name)
                  /\ q[Len(q)][2] = q[1][1]}}

RecursiveCall(function_name, call_type, depth) ==
    [function_name |-> function_name, call_type |-> call_type, depth |-> depth]

\* find_recursive_calls reporting a function at most once
find_recursive_calls_deduplicated(direct, indirect) ==
    IF direct # <<>>
    THEN [i \in DOMAIN direct |-> RecursiveCall(direct[i].function_name, "Direct", 1)]
    ELSE [i \in DOMAIN indirect |->
            RecursiveCall(indirect[i].function_name, "Indirect", indirect[i].depth)]

\* find_recursive_calls, given the rows of its two queries
find_recursive_calls(direct, indirect) ==
    [i \in DOMAIN direct |-> RecursiveCall(direct[i].function_name, "Direct", 1)]
        \o [i \in DOMAIN indirect |->
                RecursiveCall(indirect[i].function_name, "Indirect", indirect[i].depth)]


\* ---------------------------------------------------------------------------
\* Queries after an import: the batch is imported phase by phase into an
\* empty store that answers every request, then one query is asked.
\* ---------------------------------------------------------------------------

\* Bounds of the queried graphs
MaxEdges == 3

MaxDepth == 2

\* The queries explored are those whose MATCH returns at most MaxRows rows.
MaxRows == 4

MainName == <<"m","a","i","n">>

A1000 == <<"0","x","1","0","0","0">>

A20 == <<"0","x","2","0">>

A30 == <<"0","x","3","0">>

\* binary_info.hashes.sha256 = "abc123"
ScenarioBinaryInfo ==
    BinaryInfo(Hashes(Some(<<"a","b","c","1","2","3">>), None), Some(<<"b">>), None,
               FileType(Some(<<"E","L","F","6","4">>), None))

QueryMain == FunctionRecord(Some(MainName), Some(A1000), [some |-> TRUE, v |-> 4])

\* one function "main" at "0x1000" and one self-call
ScenarioA ==
    Payload(ScenarioBinaryInfo, Array(<<QueryMain>>), Absent, Absent, Absent,
            Array(<<CallRecord(Some(A1000), Some(A1000), None, None)>>))

\* three functions; the third is "g" or a second "main"
QueryFunctions(third) ==
    <<QueryMain,
      FunctionRecord(Some(<<"f">>), Some(A20), NoneNum),
      FunctionRecord(Some(third), Some(A30), NoneNum)>>

\* one call record for each ordered pair of the three functions
CallCandidates ==
    <<CallRecord(Some(A1000), Some(A1000), None, None),
      CallRecord(Some(A1000), Some(A20), Some(<<"0","x","1","0">>), None),
      CallRecord(Some(A1000), Some(A30), Some(<<"0","x","9">>), None),
      CallRecord(Some(A20), Some(A1000), Some(<<"0","x","9">>), None),
      CallRecord(Some(A20), Some(A20), Some(<<"0","x","9">>), None),
      CallRecord(Some(A20), Some(A30), Some(<<"0","x","2","0">>), None),
      CallRecord(Some(A30), Some(A1000), Some(<<"0","x","1","0">>), None),
      CallRecord(Some(A30), Some(A20), Some(<<"0","x","8">>), None),
      CallRecord(Some(A30), Some(A30), None, None)>>

\* the records of s at the indices of I, in the order of s
Pick(s, I) ==
    [k \in 1..Cardinality(I) |->
        s[CHOOSE i \in I : Cardinality({j \in I : j < i}) = k - 1]]

QueryPayloads ==
    {ScenarioA,
     Payload(ScenarioBinaryInfo, Array(<<QueryMain>>), Absent, Absent, Absent, Array(<<>>))}
    \cup {Payload(GoodBinaryInfo, Array(QueryFunctions(third)), Absent, Absent, Absent,
                  Array(Pick(CallCandidates, I))) :
            third \in {<<"g">>, MainName},
            I \in {J \in SUBSET DOMAIN CallCandidates : Cardinality(J) <= MaxEdges}}

\* a name, a second name, an identifier, and a name no function has
QueryNames ==
    {MainName, <<"f">>, H1 \o <<":">> \o A1000, <<"n","o">>}

QueryInit ==
    /\ data \in QueryPayloads
    /\ store = EmptyStore
    /\ pc = "binary"
    /\ binary = NoBinary
    /\ address_to_uid = EmptyMap
    /\ stats = ZeroStats
    /\ errors = <<>>
    /\ log = <<>>
    /\ result = NoResult
    /\ calls_out = NoCalls
    /\ run = "import"
    /\ prev = [store |-> EmptyStore, result |-> NoResult]
    /\ faults = MaxFaults
    /\ query = NoQuery
    /\ answer = <<>>

\* A query reads the store and changes nothing of the import.
Asked(fn, args) ==
    /\ query' = Call(fn, args)
    /\ pc' = "queried"
    /\ UNCHANGED <<data, store, binary, address_to_uid, stats, errors, log, result,
                   calls_out, run, prev, faults>>

QueryCallPaths ==
    /\ pc = "done"
    /\ \E function_name \in QueryNames, max_depth \in 0..MaxDepth :
        LET rows == CallPathRows(store, function_name, max_depth)
        IN  /\ Cardinality(rows) <= MaxRows
            /\ \E order \in Orderings(rows) :
                    answer' = query_call_paths(order, function_name)
            /\ Asked("query_call_paths", <<function_name, max_depth>>)

QueryUpwardCallChain ==
    /\ pc = "done"
    /\ \E function_name \in QueryNames, max_depth \in 0..MaxDepth :
        LET rows == UpwardRows(store, function_name, max_depth)
        IN  /\ Cardinality(rows) <= MaxRows
            /\ \E order \in OrderedByPathLength(rows) :
                    answer' = query_upward_call_chain(order, function_name)
            /\ Asked("query_upward_call_chain", <<function_name, max_depth>>)

QueryCallSequences ==
    /\ pc = "done"
    /\ \E function_name \in QueryNames :
        LET rows == CallSequenceRows(store, function_name)
        IN  /\ Cardinality(rows) <= MaxRows
            /\ \E order \in OrderedByOffset(rows) :
                    answer' = query_call_sequences(order)
            /\ Asked("query_call_sequences", <<function_name>>)

QueryCallerSequences ==
    /\ pc = "done"
    /\ \E function_name \in QueryNames :
        LET rows == CallerSequenceRows(store, function_name)
        IN  /\ Cardinality(rows) <= MaxRows
            /\ \E order \in OrderedByOffset(rows) :
                    answer' = query_caller_sequences(order)
            /\ Asked("query_caller_sequences", <<function_name>>)

FindRecursiveCalls ==
    /\ pc = "done"
    /\ \E function_name \in QueryNames :
        LET direct   == DirectRows(store, function_name)
            indirect == IndirectRows(store, function_name)
        IN  /\ Cardinality(direct) + Cardinality(indirect) <= MaxRows
            /\ \E d \in Orderings(direct), n \in Orderings(indirect) :
                    answer' = find_recursive_calls(d, n)
            /\ Asked("find_recursive_calls", <<function_name>>)

QueryNext ==
    \/ BinaryPhase
    \/ FunctionsPhase
    \/ StringsPhase
    \/ ImportsPhase
    \/ ExportsPhase
    \/ CallsPhase
    \/ Return
    \/ QueryCallPaths
    \/ QueryUpwardCallChain
    \/ QueryCallSequences
    \/ QueryCallerSequences
    \/ FindRecursiveCalls

QuerySpec == QueryInit /\ [][QueryNext]_vars


\* ---------------------------------------------------------------------------
\* C22
\* ---------------------------------------------------------------------------

Queried(fn) == pc = "queried" /\ query.fn = fn

\* The closed paths of k CALLS edges of the store that leave a function
\* matching the queried name, return to it and use no edge twice.
CyclesOfLength(k) ==
    IF k > Cardinality(DOMAIN store.calls) THEN {}
    ELSE {c \in [1..k -> DOMAIN store.calls] :
            /\ c[1][1] \in Matching(store, query.args[1])
            /\ c[k][2] = c[1][1]
            /\ \A i \in 1..(k - 1) : c[i][2] = c[i + 1][1]
            /\ \A i, j \in 1..k : i # j => c[i] # c[j]}

SelfCallers ==
    {f \in Matching(store, query.args[1]) : <<f, f>> \in DOMAIN store.calls}

\* The positions of the answer holding the entry e
EntriesEqualTo(e) == {i \in DOMAIN answer : answer[i] = e}

\* C22: find_recursive_calls returns, for every name n, as many entries (n, Direct, 1)
\* as there are matching functions named n with a CALLS edge to themselves, and
\* for every k in 2..10 as many entries (n, Indirect, k) as there are closed paths
\* of k edges returning to a matching function named n; it returns nothing else,
\* and the Direct entries precede the Indirect entries. The batch of one function
\* "main" at "0x1000" with one self-call is reported with functions = 1 and
\* calls_relationships = 1, and the query for "main" returns exactly one entry,
\* Direct at depth 1.
C22_RecursiveCalls ==
    /\ Queried("find_recursive_calls")
       => /\ \A i \in DOMAIN answer :
                /\ answer[i].call_type \in {"Direct", "Indirect"}
                /\ answer[i].call_type = "Direct" => answer[i].depth = 1
                /\ answer[i].call_type = "Indirect" => answer[i].depth \in 2..MaxCycle
          /\ \A n \in {store.functions[u].name : u \in DOMAIN store.functions} :
                /\ Cardinality(EntriesEqualTo(RecursiveCall(n, "Direct", 1)))
                       = Cardinality({f \in SelfCallers : store.functions[f].name = n})
                /\ \A k \in 2..MaxCycle :
                       Cardinality(EntriesEqualTo(RecursiveCall(n, "Indirect", k)))
                           = Cardinality({c \in CyclesOfLength(k) :
                                             store.functions[c[1][1]].name = n})
          /\ \A i \in DOMAIN answer :
                answer[i].function_name
                    \in {store.functions[u].name : u \in DOMAIN store.functions}
          /\ \A i, j \in DOMAIN answer :
                (answer[i].call_type = "Direct" /\ answer[j].call_type = "Indirect")
                    => i < j
    /\ (data = ScenarioA /\ pc \in {"done", "queried"})
       => /\ result.statistics.functions = 1
          /\ result.statistics.calls_relationships = 1
          /\ (Queried("find_recursive_calls") /\ query.args[1] = MainName)
                => answer = <<RecursiveCall(MainName, "Direct", 1)>>

\* a function that calls itself and is on a longer cycle too is asked about
C22_Witness ==
    /\ Queried("find_recursive_calls")
    /\ \E i, j \in DOMAIN answer :
        /\ answer[i].call_type = "Direct"
        /\ answer[j].call_type = "Indirect"
        /\ answer[j].depth = 3
        /\ answer[i].function_name = answer[j].function_name

\* scenario A has been imported and asked about "main"
C22_ScenarioAsked ==
    /\ data = ScenarioA
    /\ Queried("find_recursive_calls")
    /\ query.args[1] = MainName


\* ---------------------------------------------------------------------------
\* C23
\* ---------------------------------------------------------------------------

\* The sequences of k CALLS edges of the store, each leaving the function the
\* one before enters, no edge used twice.
EdgeSequences(k) ==
    IF k > Cardinality(DOMAIN store.calls) THEN {}
    ELSE {c \in [1..k -> DOMAIN store.calls] :
            /\ \A i \in 1..(k - 1) : c[i][2] = c[i + 1][1]
            /\ \A i, j \in 1..k : i # j => c[i] # c[j]}

\* The paths of 1..max_depth edges that start at a function matching the query
ForwardPaths ==
    UNION {{c \in EdgeSequences(k) : c[1][1] \in Matching(store, query.args[1])} :
              k \in 1..query.args[2]}

\* The function a path of edges visits at depth i
Visited(c, i) == IF i = 0 THEN c[1][1] ELSE c[i][2]

\* The returned path p is the traversal of c by query_call_paths
IsCallPathOf(p, c) ==
    /\ Len(p.nodes) = Len(c) + 1
    /\ p.length = Len(c)
    /\ \A i \in 0..Len(c) :
        /\ p.nodes[i + 1].name = store.functions[Visited(c, i)].name
        /\ p.nodes[i + 1].address = Some(store.functions[Visited(c, i)].address)
        /\ p.nodes[i + 1].depth = i
        /\ p.nodes[i + 1].call_site =
               IF i = 0 THEN None ELSE Some(store.calls[c[i]].offset)

\* C23: for every path of k edges, 1 <= k <= max_depth, that starts at a function
\* matching the queried name or identifier, query_call_paths returns a CallPath
\* with the nodes in traversal order, node i at depth i, no call-site on the
\* first node, on node i > 0 the offset of the edge entering it, and length k;
\* it returns as many paths as there are such paths and none longer than max_depth.
C23_CallPathsAreTheTraversals ==
    Queried("query_call_paths")
    => /\ \A c \in ForwardPaths : \E i \in DOMAIN answer : IsCallPathOf(answer[i], c)
       /\ ForwardPaths # {} => Len(answer) = Cardinality(ForwardPaths)
       /\ \A i \in DOMAIN answer : answer[i].length <= query.args[2]

\* a query to depth 2 that returned a path of one edge and a path of two
C23_Witness ==
    /\ Queried("query_call_paths")
    /\ query.args[2] = 2
    /\ \E i, j \in DOMAIN answer :
        /\ answer[i].length = 1
        /\ answer[j].length = 2
        /\ answer[j].nodes[3].call_site # answer[j].nodes[2].call_site


\* ---------------------------------------------------------------------------
\* C24
\* ---------------------------------------------------------------------------

\* The paths of 1..max_depth edges that end at a function matching the query
BackwardPaths ==
    UNION {{c \in EdgeSequences(k) : c[k][2] \in Matching(store, query.args[1])} :
              k \in 1..query.args[2]}

\* The answer is one path of one node, the queried function at depth 0
IsSynthetic(paths) ==
    /\ Len(paths) = 1
    /\ paths[1].length = 0
    /\ Len(paths[1].nodes) = 1
    /\ paths[1].nodes[1].name = query.args[1]
    /\ paths[1].nodes[1].depth = 0

\* C24: query_call_paths and query_upward_call_chain never return an empty list;
\* when the store holds no path of 1..max_depth edges from (to) a function matching
\* the query, the answer is exactly one path of length 0 with a single node, named
\* as the query and at depth 0.
C24_FallbackIsOneSyntheticPath ==
    /\ Queried("query_call_paths")
       => /\ answer # <<>>
          /\ ForwardPaths = {} => IsSynthetic(answer)
    /\ Queried("query_upward_call_chain")
       => /\ answer # <<>>
          /\ BackwardPaths = {} => IsSynthetic(answer)

\* a function that is called is asked for its callers to depth 0
C24_Witness ==
    /\ Queried("query_upward_call_chain")
    /\ query.args[2] = 0
    /\ \E e \in DOMAIN store.calls : e[2] \in Matching(store, query.args[1])
    /\ IsSynthetic(answer)

\* a function nobody calls, and a name no function has, are asked about
C24_NoCallerAsked ==
    /\ Queried("query_call_paths")
    /\ query.args[2] > 0
    /\ DOMAIN store.calls # {}
    /\ ForwardPaths = {}


\* ---------------------------------------------------------------------------
\* C25
\* ---------------------------------------------------------------------------

\* The CALLS edges the queried function makes (query_call_sequences) or
\* receives (query_caller_sequences)
DirectEdges ==
    {e \in DOMAIN store.calls :
        IF query.fn = "query_call_sequences"
        THEN e[1] \in Matching(store, query.args[1])
        ELSE e[2] \in Matching(store, query.args[1])}

\* The entry of the answer for the edge e
IsSequenceOf(s, e) ==
    /\ s.call_site = store.calls[e].offset
    /\ IF query.fn = "query_call_sequences"
       THEN /\ s.caller = store.functions[e[1]].name
            /\ s.callee = store.functions[e[2]].name
       ELSE /\ s.caller_name = store.functions[e[1]].name
            /\ s.caller_address = store.functions[e[1]].address
            /\ s.callee_name = store.functions[e[2]].name
            /\ s.callee_address = store.functions[e[2]].address

SequencesAsked == Queried("query_call_sequences") \/ Queried("query_caller_sequences")

\* The answer is the direct edges of the queried function, one entry each
ExactlyTheDirectEdges ==
    /\ Len(answer) = Cardinality(DirectEdges)
    /\ \A e \in DirectEdges : \E i \in DOMAIN answer : IsSequenceOf(answer[i], e)

NumberedInListOrder == \A i \in DOMAIN answer : answer[i].order = i

\* C25: query_call_sequences and query_caller_sequences return exactly the direct
\* CALLS edges of the queried function, in ascending order of the call-site offset
\* read as an address, numbered 1, 2, ..., n in list order.
C25_SequencesAscendByOffset ==
    SequencesAsked
    => /\ ExactlyTheDirectEdges
       /\ NumberedInListOrder
       /\ \A i, j \in DOMAIN answer :
            i < j => parse_address(answer[i].call_site).v
                         <= parse_address(answer[j].call_site).v

\* What the code does: the edges, numbered in list order, ascending in the order
\* of the offsets as strings.
C25_SequencesAscendByOffsetString ==
    SequencesAsked
    => /\ ExactlyTheDirectEdges
       /\ NumberedInListOrder
       /\ \A i, j \in DOMAIN answer :
            i < j => StringLeq(answer[i].call_site, answer[j].call_site)

\* a function with calls at offsets 0x10 and 0x9 is asked for its sequences
C25_Witness ==
    /\ Queried("query_call_sequences")
    /\ \E i, j \in DOMAIN answer :
        /\ i < j
        /\ answer[i].call_site = <<"0","x","1","0">>
        /\ answer[j].call_site = <<"0","x","9">>


\* ---------------------------------------------------------------------------
\* C26
\* ---------------------------------------------------------------------------

\* The returned chain p is the path c, from its first caller to the queried function
IsUpwardChainOf(p, c) ==
    /\ Len(p.nodes) = Len(c) + 1
    /\ p.length = Len(c)
    /\ \A i \in 0..Len(c) :
        /\ p.nodes[i + 1].name = store.functions[Visited(c, i)].name
        /\ p.nodes[i + 1].address = Some(store.functions[Visited(c, i)].address)
        /\ p.nodes[i + 1].call_site =
               IF i = Len(c) THEN None ELSE Some(store.calls[c[i + 1]].offset)

\* The queried function: its name or its identifier is the argument
IsQueried(node) ==
    \E u \in Matching(store, query.args[1]) :
        /\ node.name = store.functions[u].name
        /\ node.address = Some(store.functions[u].address)

\* C26: query_upward_call_chain returns one chain for every path of 1..max_depth
\* CALLS edges that ends at the queried function, in non-decreasing order of
\* length; in each chain the last node is the queried function, length is the
\* number of edges, and every node but the last carries the offset of the call
\* it makes to the next node.
C26_UpwardChainsByLength ==
    (Queried("query_upward_call_chain") /\ BackwardPaths # {})
    => /\ Len(answer) = Cardinality(BackwardPaths)
       /\ \A c \in BackwardPaths : \E i \in DOMAIN answer : IsUpwardChainOf(answer[i], c)
       /\ \A i, j \in DOMAIN answer : i < j => answer[i].length <= answer[j].length
       /\ \A i \in DOMAIN answer :
            /\ IsQueried(answer[i].nodes[Len(answer[i].nodes)])
            /\ answer[i].length = Len(answer[i].nodes) - 1
            /\ answer[i].nodes[Len(answer[i].nodes)].call_site = None
            /\ \A k \in 1..(Len(answer[i].nodes) - 1) : answer[i].nodes[k].call_site.some

\* chains of one and of two edges were returned for a called function
C26_Witness ==
    /\ Queried("query_upward_call_chain")
    /\ \E i, j \in DOMAIN answer :
        /\ answer[i].length = 1
        /\ answer[j].length = 2
        /\ answer[j].nodes[1].call_site # answer[j].nodes[2].call_site


\* ---------------------------------------------------------------------------
\* C27
\* ---------------------------------------------------------------------------

\* The CALLS upserts of this batch that the store completed
CallsCompleted ==
    {pos \in DOMAIN log : log[pos].op = "create_calls_relationship" /\ log[pos].ok}

ImportReturned == pc = "done" /\ result.kind = "Ok"

\* C27: the calls_relationships statistic import_data returns is the number of
\* CALLS upserts the store completed during the batch, whatever the calls section,
\* also when a later record lacks from_address or to_address or a later upsert fails.
C27_CallsStatisticCountsUpserts ==
    ImportReturned => result.statistics.calls_relationships = Cardinality(CallsCompleted)

\* What the code does: the statistic is the number of completed upserts when the
\* calls phase came to its end, and 0 when it stopped early.
C27_CallsStatisticUnlessStopped ==
    ImportReturned
    => result.statistics.calls_relationships =
           IF calls_out.ran /\ calls_out.ok THEN Cardinality(CallsCompleted) ELSE 0

\* an edge was written and a later record stopped the calls phase
C27_Witness ==
    /\ ImportReturned
    /\ calls_out.ran /\ ~calls_out.ok
    /\ CallsCompleted # {}


\* ---------------------------------------------------------------------------
\* C28
\* ---------------------------------------------------------------------------

\* The keys the imports of the batch register: each address, raw and normalized
ImportKeys ==
    IF IsArray(data.imports) /\ parse_imports(data.imports).ok
    THEN LET imports == parse_imports(data.imports).v.imports
         IN  {imports[i].address : i \in DOMAIN imports}
                \cup {normalize_address(imports[i].address).v :
                        i \in {j \in DOMAIN imports :
                                  normalize_address(imports[j].address).some}}
    ELSE {}

\* C28: the imports phase re-points no key of the address map: every key the
\* functions phase registered maps to the same function identifier after the
\* imports phase, whatever addresses the imports carry.
C28_ImportsKeepFunctionKeys ==
    [][pc = "imports"
        => \A k \in DOMAIN address_to_uid :
              /\ k \in DOMAIN address_to_uid'
              /\ address_to_uid'[k] = address_to_uid[k]]_vars

\* What the code does: the keys that no import of the batch registers are kept.
C28_ImportsKeepOtherKeys ==
    [][pc = "imports"
        => \A k \in DOMAIN address_to_uid \ ImportKeys :
              /\ k \in DOMAIN address_to_uid'
              /\ address_to_uid'[k] = address_to_uid[k]]_vars

\* the imports phase has run on an import at the address of a function
C28_Witness ==
    /\ pc = "exports"
    /\ IsArray(data.functions)
    /\ \E i \in DOMAIN data.functions.items :
        LET key == normalize_address(UnwrapOr(data.functions.items[i].address, <<"0","x","0">>))
        IN  /\ key.some
            /\ key.v \in ImportKeys
            /\ key.v \in DOMAIN address_to_uid


\* ---------------------------------------------------------------------------
\* C29
\* ---------------------------------------------------------------------------

ExportsPhaseDone ==
    /\ pc \in {"calls", "return"}
    /\ IsArray(data.functions)
    /\ IsArray(data.exports)
    /\ parse_exports(data.exports).ok

\* The address a functions-section record is given
FunctionAddress(func_data) ==
    UnwrapOr(parse_address(UnwrapOr(func_data.address, <<"0","x","0">>)), 0)

\* The export records at the address of the functions-section record
ExportsAt(func_data) ==
    {i \in DOMAIN data.exports.items :
        LET address == parse_address(data.exports.items[i].address.v)
        IN  address.some /\ address.v = FunctionAddress(func_data)}

\* The functions-section records that are alone at their address
AloneAtAddress ==
    {i \in DOMAIN data.functions.items :
        \A j \in DOMAIN data.functions.items :
            j # i => FunctionAddress(data.functions.items[j])
                        # FunctionAddress(data.functions.items[i])}

\* The Function node persisted at the address of the record
NodeAt(func_data) ==
    store.functions[binary.hash \o <<":">> \o format_address(FunctionAddress(func_data))]

\* C29: when an export record names the address of a functions-section record of
\* the batch, the Function node persisted at that address has, after the exports
\* phase, the name, the type Internal and the size of the functions-section record.
C29_ExportKeepsFunctionNode ==
    ExportsPhaseDone
    => \A i \in AloneAtAddress :
          LET func_data == data.functions.items[i]
          IN  ExportsAt(func_data) # {}
              => /\ NodeAt(func_data).name
                        = UnwrapOr(func_data.name, <<"u","n","k","n","o","w","n">>)
                 /\ NodeAt(func_data).type = "Internal"
                 /\ NodeAt(func_data).size = UnwrapOr(func_data.size, -1)

\* What the code does when the store has answered every request: the node has
\* the name of an export at its address, the type Export and no size.
C29_ExportReplacesFunctionNode ==
    (ExportsPhaseDone /\ faults = 0)
    => \A i \in AloneAtAddress :
          LET func_data == data.functions.items[i]
          IN  ExportsAt(func_data) # {}
              => /\ \E e \in ExportsAt(func_data) :
                        NodeAt(func_data).name = data.exports.items[e].name.v
                 /\ NodeAt(func_data).type = "Export"
                 /\ NodeAt(func_data).size = -1

\* the exports phase has run on an export at the address of a function with a size
C29_Witness ==
    /\ ExportsPhaseDone
    /\ faults = 0
    /\ \E i \in AloneAtAddress :
        /\ ExportsAt(data.functions.items[i]) # {}
        /\ data.functions.items[i].size.some


\* ---------------------------------------------------------------------------
\* C30
\* ---------------------------------------------------------------------------

\* C30: for every chain query_upward_call_chain returns, target_function() is the
\* node of the queried function: a node with the name and address of a function
\* matching the query or, for the chain returned when no path was found, the
\* node named as the query.
C30_TargetFunctionIsTheQueried ==
    Queried("query_upward_call_chain")
    => \A i \in DOMAIN answer :
          /\ target_function(answer[i]).some
          /\ IF BackwardPaths = {}
             THEN target_function(answer[i]).v.name = query.args[1]
             ELSE IsQueried(target_function(answer[i]).v)

\* What the code does: target_function() is the first node of the chain, the
\* caller the path starts at; the queried function is the last node.
C30_TargetFunctionIsTheFirstCaller ==
    Queried("query_upward_call_chain")
    => \A i \in DOMAIN answer :
          /\ target_function(answer[i]) = Some(answer[i].nodes[1])
          /\ BackwardPaths # {}
                => /\ IsQueried(answer[i].nodes[Len(answer[i].nodes)])
                   /\ \E c \in BackwardPaths :
                        /\ IsUpwardChainOf(answer[i], c)
                        /\ target_function(answer[i]).v.name
                               = store.functions[c[1][1]].name

\* a chain from another function to the queried one was returned
C30_Witness ==
    /\ Queried("query_upward_call_chain")
    /\ \E i \in DOMAIN answer :
        /\ answer[i].length >= 1
        /\ ~IsQueried(answer[i].nodes[1])

====
